---- MODULE Spec2Model ----
(***************************************************************************)
(* Model of HelloTraingleApp (src/MainClean.cpp; src/unnamed/part_000 is   *)
(* the same code with tutorial comments): run() = initWindow, initVulkan,  *)
(* mainLoop, cleanup.  The host thread is a program counter walking the    *)
(* Vulkan calls in source order.  The graphics queue and the presentation  *)
(* engine are asynchronous actions that execute what the host enqueued.    *)
(* auto-vulkan-setup.bat is modelled beside it: one step per command of    *)
(* the script, over the folder it is run in.                               *)
(***************************************************************************)
EXTENDS Integers, Sequences, FiniteSets, TLC

\* ----------------------------------------------------------------- bounds
\* Largest number of images vkGetSwapchainImagesKHR reports.
MaxImages == 3
\* Loop iterations after which the user has closed the window at the latest.
MaxFrames == 3
\* Calls that report a failure, per run.
MaxFaults == 1
\* The same, for a run whose initVulkan returned early.
MaxFailFrames == 1
\* Widths and heights of the surface data range over 0 .. MaxExtent.
MaxExtent == 2
\* Passes of the loop in the side-by-side run of the two source files.
MaxPairFrames == 3
MaxFormats == 2
\* Times the user runs auto-vulkan-setup.bat in the same folder.
MaxRuns == 2
\* Commands of the script that fail, over all its runs.
MaxScriptFaults == 1

\* ------------------------------------------------------ program constants
MAX_FRAMES_IN_FLIGHT == 2

Slots == 0 .. (MAX_FRAMES_IN_FLIGHT - 1)
Images == 0 .. (MaxImages - 1)
\* Value of the local imageIndex outside the range of swapChainImages, and
\* its value outside its scope.
NoIndex == MaxImages

VARIABLES
    pc,            \* host position in run()
    viewIdx,       \* i of the image-view loop in initVulkan
    syncIdx,       \* i of the semaphore/fence loop in initVulkan and cleanup
    imageCount,    \* swapChainImages.size()
    valid,         \* handles that refer to a live object
    created,       \* per kind: number of successful vkCreate*/vkAllocate*
    destroyed,     \* per kind: number of vkDestroy* calls made
    setupFailed,   \* the step at which initVulkan returned early, or "none"
    currentFrame,  \* local of mainLoop
    imageIndex,    \* local of the loop body
    frame,         \* loop iterations started so far
    shouldClose,   \* glfwWindowShouldClose(window)
    acquireOk,     \* result of this iteration's vkAcquireNextImageKHR
    presentErr,    \* some vkQueuePresentKHR reported a failure
    cmdBuf,        \* per slot: state and contents of commandBuffers[s]
    fence,         \* per slot: inFlightFences[s]
    imgSem,        \* per slot: imageAvailableSemaphores[s]
    semImg,        \* per slot: image whose release signals imgSem[s]
    renSem,        \* per slot: renderFinishedSemaphores[s]
    inflight,      \* batches submitted to graphicsQueue and not completed
    presentQ,      \* present requests enqueued on presentQueue, in order
    owner,         \* per image: "pe" or "app"
    peReading,     \* per image: the presentation engine still reads it
    layout,        \* per image: the VkImageLayout it is in
    fresh,         \* images fresh .. imageCount-1 have never been acquired
    drained,       \* the last vkDeviceWaitIdle returned with the device idle
    faults,        \* calls that have reported a failure so far
    loopError,     \* the call whose failure made mainLoop return, or "none"
    iterOps,       \* calls made so far in the current iteration of the loop
    recorded,      \* per slot and image: the commands first recorded for them
    caps,          \* VkSurfaceCapabilitiesKHR and the framebuffer size
    extent,        \* this->extent
    shaderBlob,    \* what vsBuffer and fsBuffer were read from, this view iteration
    pipelineBlob,  \* the shader blobs graphicsPipeline was built from
    runMain,       \* mainLoop of MainClean.cpp run on its own: slot, calls made
    runPart,       \* mainLoop of unnamed/part_000 run on the same answers
    slotUse,       \* per slot: fence waits and resets since its last submit,
                   \* and the iterations of its last two submits
    surfaceFormats, \* the list vkGetPhysicalDeviceSurfaceFormatsKHR returns
    surfaceFormat, \* this->surfaceFormat
    formatOf,      \* the format the swapchain, each image view and the
                   \* pipeline were created with
    drawArea,      \* this->viewport and this->scissor: width and height
    script         \* auto-vulkan-setup.bat: the step at hand, the folder it
                   \* runs in, ERRORLEVEL, what it ran and how it ended

\* What initVulkan reads from the platform and builds from it.
formatData == <<surfaceFormats, surfaceFormat, formatOf>>

setupData == <<shaderBlob, pipelineBlob, formatData, drawArea>>

\* The two copies of mainLoop that are run side by side, and the script.
pairVars == <<runMain, runPart, script>>

auxRest == <<loopError, iterOps, recorded, caps, extent, setupData, pairVars>>

aux == <<auxRest, slotUse>>

\* No call of the loop body has been made in the iteration.
NoOps == [acquire |-> 0, submit |-> 0, present |-> 0]

hostVars == <<pc, viewIdx, syncIdx, imageCount, valid, created, destroyed,
              setupFailed, currentFrame, imageIndex, frame, shouldClose,
              acquireOk, presentErr, cmdBuf, drained, aux, faults>>
devVars == <<fence, imgSem, semImg, renSem, inflight, presentQ, owner,
             peReading, layout, fresh>>
vars == <<hostVars, devVars>>

\* ---------------------------------------------------------------- handles
Kinds == {"instance", "surface", "device", "swapchain", "imageView",
          "shaderModule", "pipelineLayout", "pipeline", "commandPool",
          "commandBuffers", "imgSem", "renSem", "fence"}

H(kind, idx) == <<kind, idx>>

\* The results a fallible call can report, and the count of reported failures.
Outcomes == IF faults < MaxFaults THEN BOOLEAN ELSE {TRUE}

Charge(ok) == faults' = IF ok THEN faults ELSE faults + 1

\* A successful creation stores a live handle in the field.
Stored(h) ==
    /\ valid' = valid \cup {h}
    /\ created' = [created EXCEPT ![h[1]] = @ + 1]

\* A failed creation leaves the field without a live object, prints the
\* error and returns from initVulkan; run() then calls mainLoop().
ReturnFromInit(step) ==
    /\ setupFailed' = step
    /\ pc' = "loopTest"

Failed(h, step) ==
    /\ valid' = valid \ {h}
    /\ created' = created
    /\ ReturnFromInit(step)

\* One fallible vkCreate* of initVulkan: on success go on with `next`.
CreateStep(at, h, next) ==
    /\ pc = at
    /\ \E ok \in Outcomes :
          /\ Charge(ok)
          /\ IF ok THEN Stored(h) /\ pc' = next /\ setupFailed' = setupFailed
                   ELSE Failed(h, at)

\* A fallible check of initVulkan that creates nothing.
CheckStep(at, next) ==
    /\ pc = at
    /\ \E ok \in Outcomes :
          /\ Charge(ok)
          /\ IF ok THEN pc' = next /\ setupFailed' = setupFailed
                   ELSE ReturnFromInit(at)
    /\ UNCHANGED <<valid, created>>

loopLocals == <<currentFrame, imageIndex, frame, shouldClose, acquireOk,
                presentErr, cmdBuf, drained, aux>>
setupRest == <<viewIdx, syncIdx, imageCount, destroyed, loopLocals, devVars>>

\* --------------------------------------------------------------- initVulkan
CreateInstance ==
    CreateStep("createInstance", H("instance", 0), "createSurface")
    /\ UNCHANGED setupRest

CreateSurface ==
    CreateStep("createSurface", H("surface", 0), "enumerateDevices")
    /\ UNCHANGED setupRest

EnumerateDevices ==
    CheckStep("enumerateDevices", "createDevice")
    /\ UNCHANGED setupRest

CreateDevice ==
    CreateStep("createDevice", H("device", 0), "querySurface")
    /\ UNCHANGED setupRest

\* std::numeric_limits<uint32_t>::max(), the width of the special
\* currentExtent: larger than every dimension a surface reports.
UINT32_MAX == MaxExtent + 1

Dims == 0 .. MaxExtent

\* The surface data a platform can report: min <= max in both dimensions,
\* and currentExtent the special value or within them; the framebuffer size
\* is whatever the window has.
ValidCaps ==
    {c \in [current : ((Dims \X Dims) \cup {<<UINT32_MAX, UINT32_MAX>>}),
            min : Dims \X Dims, max : Dims \X Dims, fb : Dims \X Dims] :
        \A d \in {1, 2} :
           /\ c.min[d] <= c.max[d]
           /\ c.current[1] # UINT32_MAX =>
                 (c.min[d] <= c.current[d] /\ c.current[d] <= c.max[d])}

\* A resolution that takes the framebuffer size as it is.
ClampNone(v, lo, hi) == v

\* std::clamp(v, lo, hi)
Clamp(v, lo, hi) == IF v < lo THEN lo ELSE IF hi < v THEN hi ELSE v

\* this->extent = capabilities.currentExtent, replaced by the clamped
\* framebuffer size when currentExtent.width is the special value.
ResolveExtent(c) ==
    IF c.current[1] = UINT32_MAX
    THEN <<Clamp(c.fb[1], c.min[1], c.max[1]), Clamp(c.fb[2], c.min[2], c.max[2])>>
    ELSE c.current

\* The surface queries, the test that formats and present modes exist, and
\* the choice of format, present mode and extent.
\* VK_FORMAT_B8G8R8A8_SRGB with VK_COLOR_SPACE_SRGB_NONLINEAR_KHR
PreferredFormat == [format |-> "B8G8R8A8_SRGB", colorSpace |-> "SRGB_NONLINEAR"]

\* Surface formats a platform may offer: the preferred one, one with its
\* format only, one with its colour space only, one with neither.
FormatValues ==
    {PreferredFormat,
     [format |-> "B8G8R8A8_SRGB", colorSpace |-> "DISPLAY_P3"],
     [format |-> "B8G8R8A8_UNORM", colorSpace |-> "SRGB_NONLINEAR"],
     [format |-> "R8G8B8A8_UNORM", colorSpace |-> "DISPLAY_P3"]}

\* this->surfaceFormat = formats[0]; then the first entry of the list that
\* has the preferred format and colour space replaces it, if there is one.
ChooseFormat(formats) ==
    LET hits == {k \in 1 .. Len(formats) :
                    /\ formats[k].format = PreferredFormat.format
                    /\ formats[k].colorSpace = PreferredFormat.colorSpace}
    IN IF hits = {} THEN formats[1]
       ELSE formats[CHOOSE k \in hits : \A j \in hits : k <= j]

QuerySurface ==
    /\ CheckStep("querySurface", "createSwapchain")
    /\ extent' = IF pc' = "createSwapchain" THEN ResolveExtent(caps) ELSE extent
    /\ surfaceFormat' = IF pc' = "createSwapchain"
                        THEN ChooseFormat(surfaceFormats) ELSE surfaceFormat
    /\ UNCHANGED <<viewIdx, syncIdx, imageCount, destroyed, currentFrame,
                   imageIndex, frame, shouldClose, acquireOk, presentErr,
                   cmdBuf, drained, loopError, iterOps, recorded, caps,
                   shaderBlob, pipelineBlob, surfaceFormats, formatOf,
                   drawArea, pairVars, slotUse, devVars>>

\* What initVulkan leaves alone where it stores a format.
formatRest == <<currentFrame, imageIndex, frame, shouldClose, acquireOk,
                presentErr, cmdBuf, drained, loopError, iterOps, recorded,
                caps, extent, shaderBlob, pipelineBlob, surfaceFormats,
                surfaceFormat, drawArea, pairVars, slotUse, devVars>>

\* swapChainInfo.imageFormat = this->surfaceFormat.format
SwapchainFormat == surfaceFormat.format

\* A request for one image less than there are frames in flight.
MinImageCountLess == MAX_FRAMES_IN_FLIGHT - 1

\* uint32_t imageCount = MAX_FRAMES_IN_FLIGHT; swapChainInfo.minImageCount = imageCount
MinImageCount == MAX_FRAMES_IN_FLIGHT

\* vkCreateSwapchainKHR with minImageCount = MAX_FRAMES_IN_FLIGHT, then
\* vkGetSwapchainImagesKHR: a swapchain that was created has at least
\* minImageCount images, and the implementation may create more.
CreateSwapchain ==
    /\ pc = "createSwapchain"
    /\ \E ok \in Outcomes :
          /\ Charge(ok)
          /\ IF ok
             THEN /\ Stored(H("swapchain", 0))
                  /\ \E n \in MinImageCount .. MaxImages : imageCount' = n
                  /\ formatOf' = [formatOf EXCEPT !.swapchain = SwapchainFormat]
                  /\ pc' = "viewLoop"
                  /\ setupFailed' = setupFailed
             ELSE /\ Failed(H("swapchain", 0), "createSwapchain")
                  /\ imageCount' = imageCount
                  /\ formatOf' = formatOf
    /\ viewIdx' = 0
    /\ UNCHANGED <<syncIdx, destroyed, formatRest>>

\* for (size_t i = 0; i < swapChainImages.size(); i++)
ViewLoop ==
    /\ pc = "viewLoop"
    /\ pc' = IF viewIdx < imageCount THEN "createImageView" ELSE "loopTest"
    /\ UNCHANGED <<faults, valid, created, setupFailed, setupRest>>

\* imageViewInfo.format = swapChainInfo.imageFormat
ViewFormat == formatOf.swapchain

CreateImageView ==
    /\ CreateStep("createImageView", H("imageView", viewIdx), "openShaders")
    /\ formatOf' = IF pc' = "openShaders"
                   THEN [formatOf EXCEPT !.views[viewIdx] = ViewFormat]
                   ELSE formatOf
    /\ UNCHANGED <<viewIdx, syncIdx, imageCount, destroyed, formatRest>>

\* What the program finds where runtime_compile.bat should have left a
\* compiled shader: no file, a file of zero bytes, or SPIR-V code.  A file
\* that is not SPIR-V code counts against the failures of the run.
FileStates == IF faults < MaxFaults THEN {"missing", "empty", "spirv"} ELSE {"spirv"}

NoBlob == [vert |-> "none", frag |-> "none"]

shaderRest == <<viewIdx, syncIdx, imageCount, destroyed, currentFrame, imageIndex,
                frame, shouldClose, acquireOk, presentErr, cmdBuf, drained,
                loopError, iterOps, recorded, caps, extent, formatData, drawArea,
                pairVars, slotUse, devVars>>

\* The buffers of one view iteration once the file of `stage` was read as st.
LoadedBlob(stage, st) ==
    IF stage = "vert" THEN [vert |-> st, frag |-> "none"]
                      ELSE [shaderBlob EXCEPT !.frag = st]

\* std::ifstream file(...); if (!file.is_open()) return;
\* then std::vector<char> buffer(file.tellg()) and file.read(buffer.data(), size):
\* only a file that cannot be opened ends initVulkan; a file of zero bytes
\* gives an empty buffer.
OpenShader(at, stage, next) ==
    /\ pc = at
    /\ \E st \in FileStates :
          /\ Charge(st = "spirv")
          /\ shaderBlob' = LoadedBlob(stage, st)
          /\ IF st = "missing"
             THEN ReturnFromInit(at)
             ELSE pc' = next /\ setupFailed' = setupFailed
    /\ UNCHANGED <<valid, created, pipelineBlob>>

\* std::ifstream vsFile(...vert.spv); if (!vsFile.is_open()) return;
OpenVertexShader ==
    /\ OpenShader("openShaders", "vert", "openFragmentShader")
    /\ UNCHANGED shaderRest

\* std::ifstream fsFile(...frag.spv); if (!fsFile.is_open()) return;
OpenFragmentShader ==
    /\ OpenShader("openFragmentShader", "frag", "createVertexModule")
    /\ UNCHANGED shaderRest

\* A vkCreate* whose create info breaks a valid-usage rule: the process
\* dies in the driver, or the call reports an error, or it reports success
\* and stores a handle.
InvalidCreate(at, h, next) ==
    /\ pc = at
    /\ \/ pc' = "crashed" /\ UNCHANGED <<valid, created, setupFailed>>
       \/ Stored(h) /\ pc' = next /\ setupFailed' = setupFailed
       \/ Failed(h, at)
    /\ faults' = faults

\* vkCreateShaderModule with codeSize = buffer.size() and pCode = buffer.data():
\* codeSize 0 breaks the rule that codeSize is greater than 0.
CreateModule(at, blob, h, next) ==
    IF blob = "empty" THEN InvalidCreate(at, h, next) ELSE CreateStep(at, h, next)

CreateVertexModule ==
    CreateModule("createVertexModule", shaderBlob.vert, H("shaderModule", 0),
                 "createFragmentModule")
    /\ UNCHANGED setupRest

CreateFragmentModule ==
    CreateModule("createFragmentModule", shaderBlob.frag, H("shaderModule", 1),
                 "createPipelineLayout")
    /\ UNCHANGED setupRest

\* viewport.width/height = extent.width/height at x = y = 0;
\* scissor.offset = {0, 0}, scissor.extent = extent
DrawArea(e) == [viewport |-> e, scissor |-> e]

\* The fixed-function state is filled in, this->viewport and this->scissor
\* are assigned, then vkCreatePipelineLayout.
CreatePipelineLayout ==
    /\ CreateStep("createPipelineLayout", H("pipelineLayout", 0), "createPipeline")
    /\ drawArea' = DrawArea(extent)
    /\ UNCHANGED <<viewIdx, syncIdx, imageCount, destroyed, currentFrame,
                   imageIndex, frame, shouldClose, acquireOk, presentErr,
                   cmdBuf, drained, loopError, iterOps, recorded, caps, extent,
                   shaderBlob, pipelineBlob, formatData, pairVars, slotUse,
                   devVars>>

\* The first format the surface offers, whichever one initVulkan selected.
PipelineFormatFirst == surfaceFormats[1].format

\* pipelineRenderingInfo.pColorAttachmentFormats = &this->surfaceFormat.format
PipelineFormat == surfaceFormat.format

\* vkCreateGraphicsPipelines with the two modules as its stages, then both
\* shader modules are destroyed.  A module made from an empty buffer holds no
\* entry point "main": the call is then invalid usage and may do anything,
\* creating a pipeline included.
CreatePipeline ==
    /\ pc = "createPipeline"
    /\ \/ \E ok \in Outcomes :
             /\ Charge(ok)
             /\ IF ok
                THEN /\ valid' = (valid \cup {H("pipeline", 0)})
                                    \ {H("shaderModule", 0), H("shaderModule", 1)}
                     /\ created' = [created EXCEPT !["pipeline"] = @ + 1]
                     /\ destroyed' = [destroyed EXCEPT !["shaderModule"] = @ + 2]
                     /\ pipelineBlob' = shaderBlob
                     /\ formatOf' = [formatOf EXCEPT !.pipeline = PipelineFormat]
                     /\ pc' = "createCommandPool"
                     /\ setupFailed' = setupFailed
                ELSE /\ Failed(H("pipeline", 0), "createPipeline")
                     /\ UNCHANGED <<destroyed, pipelineBlob, formatOf>>
       \/ /\ "empty" \in {shaderBlob.vert, shaderBlob.frag}
          /\ \/ pc' = "crashed" /\ UNCHANGED <<valid, created, setupFailed>>
             \/ Failed(H("pipeline", 0), "createPipeline")
          /\ UNCHANGED <<faults, destroyed, pipelineBlob, formatOf>>
    /\ UNCHANGED <<viewIdx, syncIdx, imageCount, currentFrame, imageIndex, frame,
                   shouldClose, acquireOk, presentErr, cmdBuf, drained, loopError,
                   iterOps, recorded, caps, extent, shaderBlob, surfaceFormats,
                   surfaceFormat, drawArea, pairVars, slotUse, devVars>>

CreateCommandPool ==
    CreateStep("createCommandPool", H("commandPool", 0), "allocateCommandBuffers")
    /\ UNCHANGED setupRest

\* Command buffer states of the Vulkan command buffer lifecycle; `cmds` is
\* the recorded command sequence and `img` the image it refers to.
FreshCmdBuf == [state |-> "initial", cmds |-> <<>>, img |-> NoIndex]

\* vkAllocateCommandBuffers fills commandBuffers[0 .. MAX_FRAMES_IN_FLIGHT-1].
AllocateCommandBuffers ==
    /\ pc = "allocateCommandBuffers"
    /\ \E ok \in Outcomes :
          /\ Charge(ok)
          /\ IF ok
             THEN /\ Stored(H("commandBuffers", 0))
                  /\ cmdBuf' = [s \in Slots |-> FreshCmdBuf]
                  /\ pc' = "syncLoop"
                  /\ setupFailed' = setupFailed
             ELSE /\ Failed(H("commandBuffers", 0), "allocateCommandBuffers")
                  /\ cmdBuf' = cmdBuf
    /\ syncIdx' = 0
    /\ UNCHANGED <<viewIdx, imageCount, destroyed, currentFrame, imageIndex,
                   frame, shouldClose, acquireOk, presentErr, drained, aux, devVars>>

\* for (size_t i = 0; i < MAX_FRAMES_IN_FLIGHT; ++i), and at its end the
\* i++ of the image-view loop.
SyncLoop ==
    /\ pc = "syncLoop"
    /\ IF syncIdx < MAX_FRAMES_IN_FLIGHT
       THEN pc' = "createImgSem" /\ viewIdx' = viewIdx
       ELSE pc' = "viewLoop" /\ viewIdx' = viewIdx + 1
    /\ UNCHANGED <<faults, valid, created, setupFailed, syncIdx, imageCount, destroyed,
                   loopLocals, devVars>>

syncRest == <<viewIdx, imageCount, destroyed, loopLocals>>

\* VkSemaphoreCreateInfo has no flags: a new semaphore is unsignaled.
CreateImgSem ==
    /\ CreateStep("createImgSem", H("imgSem", syncIdx), "createRenSem")
    /\ imgSem' = [imgSem EXCEPT ![syncIdx] = "unsignaled"]
    /\ UNCHANGED <<syncIdx, syncRest, fence, semImg, renSem, inflight,
                   presentQ, owner, peReading, layout, fresh>>

CreateRenSem ==
    /\ CreateStep("createRenSem", H("renSem", syncIdx), "createFence")
    /\ renSem' = [renSem EXCEPT ![syncIdx] = "unsignaled"]
    /\ UNCHANGED <<syncIdx, syncRest, fence, imgSem, semImg, inflight,
                   presentQ, owner, peReading, layout, fresh>>

\* A fence created without the signaled flag.
FenceCreateUnsignaled == "unsignaled"

\* fenceInfo.flags = VK_FENCE_CREATE_SIGNALED_BIT
FenceCreateState == "signaled"

CreateFence ==
    /\ CreateStep("createFence", H("fence", syncIdx), "syncLoop")
    /\ fence' = [fence EXCEPT ![syncIdx] = FenceCreateState]
    /\ syncIdx' = IF pc' = "syncLoop" THEN syncIdx + 1 ELSE syncIdx
    /\ UNCHANGED <<syncRest, imgSem, semImg, renSem, inflight, presentQ,
                   owner, peReading, layout, fresh>>

\* ---------------------------------------------------------------- mainLoop
\* What initVulkan leaves behind; mainLoop does not assign any of it.
setupState == <<viewIdx, syncIdx, imageCount, valid, created, destroyed,
                setupFailed>>

allButPc == <<viewIdx, syncIdx, imageCount, valid, created, destroyed,
              setupFailed, currentFrame, imageIndex, frame, shouldClose,
              acquireOk, presentErr, cmdBuf, drained, aux, faults, devVars>>

\* A call that is handed a handle without a live object has undefined
\* behaviour: the process dies in the driver, or the call comes back having
\* done nothing.
Undefined(next) ==
    /\ pc' \in {"crashed", next}
    /\ UNCHANGED allButPc

Live(handles) == handles \subseteq valid

\* while (!glfwWindowShouldClose(window))
LoopTest ==
    /\ pc = "loopTest"
    /\ IF shouldClose
       THEN pc' = "loopDrain" /\ frame' = frame /\ iterOps' = iterOps
       ELSE pc' = "waitFence" /\ frame' = frame + 1 /\ iterOps' = NoOps
    /\ UNCHANGED <<faults, setupState, currentFrame, imageIndex, shouldClose,
                   acquireOk, presentErr, cmdBuf, drained, loopError, recorded,
                   caps, extent, setupData, pairVars, slotUse, devVars>>

\* A wait that returns at once, whatever the state of the fence.
FenceWaitSkipped(s) == TRUE

\* vkWaitForFences(device, 1, inFlightFences+currentFrame, VK_TRUE, UINT64_MAX)
FenceWaitReturns(s) == fence[s] = "signaled"

WaitForFence ==
    /\ pc = "waitFence"
    /\ IF Live({H("device", 0), H("fence", currentFrame)})
       THEN /\ FenceWaitReturns(currentFrame)
            /\ pc' = "resetFence"
            /\ slotUse' = [slotUse EXCEPT ![currentFrame].waits = @ + 1]
            /\ UNCHANGED <<setupState, currentFrame, imageIndex, frame, shouldClose,
                           acquireOk, presentErr, cmdBuf, drained, auxRest, faults,
                           devVars>>
       ELSE Undefined("resetFence")

\* vkResetFences(device, 1, inFlightFences+currentFrame)
ResetFence ==
    /\ pc = "resetFence"
    /\ IF Live({H("device", 0), H("fence", currentFrame)})
       THEN /\ fence' = [fence EXCEPT ![currentFrame] = "unsignaled"]
            /\ slotUse' = [slotUse EXCEPT ![currentFrame].resets = @ + 1]
            /\ pc' = "acquire"
            /\ UNCHANGED <<faults, setupState, currentFrame, imageIndex, frame,
                           shouldClose, acquireOk, presentErr, cmdBuf, drained, auxRest,
                           imgSem, semImg, renSem, inflight, presentQ, owner,
                           peReading, layout, fresh>>
       ELSE Undefined("acquire")

\* An image vkAcquireNextImageKHR can hand out: the application does not own
\* it and no present request for it is still waiting on the present queue.
\* Images never acquired before are interchangeable: the engine's choice
\* among them is represented by the one with the lowest index.
Acquirable(i) ==
    /\ i < imageCount
    /\ i <= fresh
    /\ owner[i] = "pe"
    /\ \A k \in 1 .. Len(presentQ) : presentQ[k].img # i

\* uint32_t imageIndex;
\* vkAcquireNextImageKHR(device, swapChain, UINT64_MAX,
\*                       imageAvailableSemaphores[currentFrame], VK_NULL_HANDLE, &imageIndex);
\* The VkResult is dropped.  On success the semaphore gets a pending signal
\* that fires once the presentation engine has stopped reading the image.  On
\* failure nothing is written: imageIndex keeps its uninitialized value.
AcquireNextImage ==
    /\ pc = "acquire"
    /\ IF Live({H("device", 0), H("swapchain", 0), H("imgSem", currentFrame)})
       THEN /\ \/ \E i \in Images :
                     /\ Acquirable(i)
                     /\ imageIndex' = i
                     /\ acquireOk' = TRUE
                     /\ owner' = [owner EXCEPT ![i] = "app"]
                     /\ imgSem' = [imgSem EXCEPT ![currentFrame] = "pending"]
                     /\ semImg' = [semImg EXCEPT ![currentFrame] = i]
                     /\ fresh' = IF i = fresh THEN fresh + 1 ELSE fresh
                     /\ iterOps' = [iterOps EXCEPT !.acquire = @ + 1]
                     /\ Charge(TRUE)
               \/ /\ FALSE \in Outcomes
                  /\ Charge(FALSE)
                  /\ imageIndex' \in (0 .. (imageCount - 1)) \cup {NoIndex}
                  /\ acquireOk' = FALSE
                  /\ UNCHANGED <<owner, imgSem, semImg, fresh, iterOps>>
            /\ pc' = "resetCmd"
            /\ UNCHANGED <<setupState, currentFrame, frame, shouldClose,
                           presentErr, cmdBuf, drained, loopError, recorded,
                           caps, extent, setupData, pairVars, slotUse, fence, renSem,
                           inflight, presentQ, peReading, layout>>
       ELSE /\ pc' \in {"crashed", "resetCmd"}
            /\ imageIndex' \in (0 .. (imageCount - 1)) \cup {NoIndex}
            /\ acquireOk' = FALSE
            /\ UNCHANGED <<setupState, currentFrame, frame, shouldClose,
                           presentErr, cmdBuf, drained, aux, faults, devVars>>

\* vkResetCommandBuffer(commandBuffers[currentFrame], 0)
ResetCommandBuffer ==
    /\ pc = "resetCmd"
    /\ IF Live({H("commandBuffers", 0)})
       THEN /\ cmdBuf' = [cmdBuf EXCEPT ![currentFrame] = FreshCmdBuf]
            /\ pc' = "beginCmd"
            /\ UNCHANGED <<faults, setupState, currentFrame, imageIndex, frame,
                           shouldClose, acquireOk, presentErr, drained, aux, devVars>>
       ELSE Undefined("beginCmd")

\* A failed call after which the loop body goes on to the end of the
\* iteration.
AfterReturnResume == "advance"

\* `return` in mainLoop: run() goes on with cleanup().
AfterReturn == "cleanupDrain"

\* if (vkBeginCommandBuffer(...) != VK_SUCCESS) return;
BeginCommandBuffer ==
    /\ pc = "beginCmd"
    /\ IF Live({H("commandBuffers", 0)})
       THEN /\ \E ok \in Outcomes :
                  /\ Charge(ok)
                  /\ IF ok
                     THEN /\ cmdBuf' = [cmdBuf EXCEPT ![currentFrame].state = "recording"]
                          /\ pc' = "record"
                          /\ loopError' = loopError
                     ELSE /\ cmdBuf' = cmdBuf
                          /\ pc' = AfterReturn
                          /\ loopError' = "begin"
            /\ UNCHANGED <<setupState, currentFrame, imageIndex, frame,
                           shouldClose, acquireOk, presentErr, drained,
                           iterOps, recorded, caps, extent, setupData, pairVars, slotUse, devVars>>
       ELSE Undefined("record")

\* One recorded command.  Fields a command does not have hold "-" or 0.
Cmd(op, img, old, new, src, dst, verts, insts) ==
    [op |-> op, img |-> img, old |-> old, new |-> new, src |-> src,
     dst |-> dst, verts |-> verts, insts |-> insts]

\* barrier.oldLayout = UNDEFINED, newLayout = COLOR_ATTACHMENT_OPTIMAL;
\* vkCmdPipelineBarrier(cb, TOP_OF_PIPE, COLOR_ATTACHMENT_OUTPUT, ...)
FirstBarrier(i) ==
    Cmd("pipelineBarrier", i, "UNDEFINED", "COLOR_ATTACHMENT_OPTIMAL",
        "TOP_OF_PIPE", "COLOR_ATTACHMENT_OUTPUT", 0, 0)

\* colorAttachment: imageView = swapChainImageViews[imageIndex],
\* imageLayout = ATTACHMENT_OPTIMAL, loadOp = CLEAR, storeOp = STORE,
\* clearValue = {0, 0, 0, 1}
BeginRendering(i) ==
    Cmd("beginRendering", i, "CLEAR_0_0_0_1", "STORE", "ATTACHMENT_OPTIMAL", "-", 0, 0)

\* vkCmdDraw(cb, 3, 1, 0, 0)
Draw == Cmd("draw", NoIndex, "-", "-", "-", "-", 3, 1)

\* barrier.oldLayout = COLOR_ATTACHMENT_OPTIMAL, newLayout = PRESENT_SRC_KHR;
\* vkCmdPipelineBarrier(cb, COLOR_ATTACHMENT_OUTPUT, BOTTOM_OF_PIPE, ...)
SecondBarrier(i) ==
    Cmd("pipelineBarrier", i, "COLOR_ATTACHMENT_OPTIMAL", "PRESENT_SRC_KHR",
        "COLOR_ATTACHMENT_OUTPUT", "BOTTOM_OF_PIPE", 0, 0)

\* A recording that also depends on the iteration that made it.
RecordedCommandsOfFrame(i) ==
    << FirstBarrier(i), BeginRendering(i), Cmd("draw", NoIndex, "-", "-", "-", "-", 3, 1 + frame) >>

\* The vkCmd* calls of one iteration, in source order.
RecordedCommands(i) ==
    << FirstBarrier(i),
       BeginRendering(i),
       Cmd("bindPipeline", NoIndex, "-", "-", "-", "-", 0, 0),
       Cmd("setViewport", NoIndex, "-", "-", "-", "-", 0, 0),
       Cmd("setScissor", NoIndex, "-", "-", "-", "-", 0, 0),
       Draw,
       Cmd("endRendering", NoIndex, "-", "-", "-", "-", 0, 0),
       SecondBarrier(i) >>

\* swapChainImages[imageIndex] and swapChainImageViews[imageIndex] are read
\* while recording; the pipeline handle is bound.
\* With an index outside the vector, a view that was never created or no
\* pipeline, the calls record garbage handles or the process dies.
\* The commands kept for (slot s, image i): those of the first recording.
FirstRecorded(s, i) ==
    IF i \in Images /\ recorded[s][i] = <<>>
    THEN [recorded EXCEPT ![s][i] = RecordedCommands(i)]
    ELSE recorded

RecordCommands ==
    /\ pc = "record"
    /\ IF Live({H("commandBuffers", 0)})
       THEN /\ \/ /\ cmdBuf' = [cmdBuf EXCEPT
                                  ![currentFrame].cmds = RecordedCommands(imageIndex),
                                  ![currentFrame].img = imageIndex]
                  /\ recorded' = FirstRecorded(currentFrame, imageIndex)
                  /\ pc' = "endCmd"
               \/ /\ ~ /\ imageIndex < imageCount
                       /\ Live({H("imageView", imageIndex), H("pipeline", 0)})
                  /\ UNCHANGED <<cmdBuf, recorded>>
                  /\ pc' = "crashed"
            /\ UNCHANGED <<faults, setupState, currentFrame, imageIndex, frame,
                           shouldClose, acquireOk, presentErr, drained, loopError,
                           iterOps, caps, extent, setupData, pairVars, slotUse, devVars>>
       ELSE Undefined("endCmd")

\* if (vkEndCommandBuffer(...) != VK_SUCCESS) return;
EndCommandBuffer ==
    /\ pc = "endCmd"
    /\ IF Live({H("commandBuffers", 0)})
       THEN /\ \E ok \in Outcomes :
                  /\ Charge(ok)
                  /\ IF ok
                     THEN /\ cmdBuf' = [cmdBuf EXCEPT ![currentFrame].state = "executable"]
                          /\ pc' = "submit"
                          /\ loopError' = loopError
                     ELSE /\ cmdBuf' = [cmdBuf EXCEPT ![currentFrame].state = "invalid"]
                          /\ pc' = AfterReturn
                          /\ loopError' = "end"
            /\ UNCHANGED <<setupState, currentFrame, imageIndex, frame,
                           shouldClose, acquireOk, presentErr, drained,
                           iterOps, recorded, caps, extent, setupData, pairVars, slotUse, devVars>>
       ELSE Undefined("submit")

\* A slot no iteration has used.
NoUse == [waits |-> 0, resets |-> 0, last |-> 0, prev |-> 0]

\* The slot's record once the current iteration has submitted with it.
Submitted(u) == [waits |-> 0, resets |-> 0, last |-> frame, prev |-> u.last]

\* VkSubmitInfo of the iteration: all four objects are taken at currentFrame.
\* waitStages[] = { COLOR_ATTACHMENT_OUTPUT }
WaitDstStage == "COLOR_ATTACHMENT_OUTPUT"

\* A submission made with the objects of the other slot.
SubmitOtherSlot == (currentFrame + 1) % MAX_FRAMES_IN_FLIGHT

SubmitSlot == currentFrame

\* A submission that waits on the other slot's image-available semaphore.
SubmitWaitOtherSem(s) == (s + 1) % MAX_FRAMES_IN_FLIGHT

\* waitSemaphores[] = { imageAvailableSemaphores[currentFrame] }
SubmitWaitSem(s) == s

Batch(s) ==
    [frame |-> frame, cb |-> s, waitSem |-> SubmitWaitSem(s), signalSem |-> s, fence |-> s,
     img |-> cmdBuf[s].img, waitStage |-> WaitDstStage,
     barrierSrc |-> cmdBuf[s].cmds[1].src,
     firstNew |-> cmdBuf[s].cmds[1].new,
     declared |-> cmdBuf[s].cmds[2].src,
     lastOld |-> cmdBuf[s].cmds[Len(cmdBuf[s].cmds)].old,
     lastNew |-> cmdBuf[s].cmds[Len(cmdBuf[s].cmds)].new,
     waited |-> FALSE, stage |-> "queued"]

\* A loop that tests its condition again right after the submit.
AfterSubmitTestStop == "loopTest"

\* After a successful vkQueueSubmit the body goes on to the present.
AfterSubmit == "present"

\* A submit that returns only once the batch's wait semaphore is signaled.
SubmitWaitsForSemaphore == imgSem[currentFrame] = "signaled"

\* vkQueueSubmit enqueues the batch and returns: the semaphore wait is the
\* queue's, not the host's.
SubmitReturns == TRUE

\* if (vkQueueSubmit(graphicsQueue, 1, &submitInfo, inFlightFences[currentFrame])
\*         != VK_SUCCESS) return;
QueueSubmit ==
    /\ pc = "submit"
    /\ SubmitReturns
    /\ IF /\ Live({H("device", 0), H("commandBuffers", 0), H("imgSem", SubmitSlot),
                   H("renSem", SubmitSlot), H("fence", SubmitSlot)})
          /\ cmdBuf[SubmitSlot].state = "executable"
       THEN /\ \E ok \in Outcomes :
                  /\ Charge(ok)
                  /\ IF ok
                     THEN /\ inflight' = inflight \cup {Batch(SubmitSlot)}
                          /\ cmdBuf' = [cmdBuf EXCEPT ![SubmitSlot].state = "pending"]
                          /\ pc' = AfterSubmit
                          /\ loopError' = loopError
                          /\ iterOps' = [iterOps EXCEPT !.submit = @ + 1]
                          /\ slotUse' = [slotUse EXCEPT ![SubmitSlot] = Submitted(@)]
                     ELSE /\ UNCHANGED <<inflight, cmdBuf, iterOps, slotUse>>
                          /\ pc' = AfterReturn
                          /\ loopError' = "submit"
            /\ UNCHANGED <<setupState, currentFrame, imageIndex, frame,
                           shouldClose, acquireOk, presentErr, drained,
                           recorded, caps, extent, setupData, pairVars, fence,
                           imgSem, semImg, renSem, presentQ, owner, peReading, layout, fresh>>
       ELSE Undefined("present")

\* VkPresentInfoKHR: pWaitSemaphores = signalSemaphores (the iteration's
\* renderFinishedSemaphores[currentFrame]), pImageIndices = &imageIndex.
PresentWaitSem == currentFrame

PresentRequest(ok) ==
    [frame |-> frame, waitSem |-> PresentWaitSem, img |-> imageIndex, ok |-> ok]

\* vkQueuePresentKHR(presentQueue, &presentInfo); the VkResult is dropped.
\* A request the engine rejects still enqueues its semaphore wait.  An index
\* that is out of range or names an image the application does not own is
\* invalid usage.
QueuePresent ==
    /\ pc = "present"
    /\ IF /\ Live({H("device", 0), H("swapchain", 0), H("renSem", PresentWaitSem)})
          /\ imageIndex < imageCount
          /\ owner[imageIndex] = "app"
       THEN /\ \E ok \in Outcomes :
                  /\ Charge(ok)
                  /\ presentQ' = Append(presentQ, PresentRequest(ok))
                  /\ presentErr' = (presentErr \/ ~ok)
            /\ owner' = [owner EXCEPT ![imageIndex] = "pe"]
            /\ iterOps' = [iterOps EXCEPT !.present = @ + 1]
            /\ pc' = "advance"
            /\ UNCHANGED <<fresh, setupState, currentFrame, imageIndex, frame,
                           shouldClose, acquireOk, cmdBuf, drained, loopError,
                           recorded, caps, extent, setupData, pairVars, slotUse, fence,
                           imgSem, semImg, renSem, inflight, peReading, layout>>
       ELSE Undefined("advance")

\* currentFrame = (currentFrame + 1) % MAX_FRAMES_IN_FLIGHT
\* An advance that stays on the same slot.
NextFrameSame(f) == f

NextFrame(f) == (f + 1) % MAX_FRAMES_IN_FLIGHT

AdvanceFrame ==
    /\ pc = "advance"
    /\ currentFrame' = NextFrame(currentFrame)
    /\ pc' = "poll"
    /\ UNCHANGED <<faults, setupState, imageIndex, frame, shouldClose, acquireOk,
                   presentErr, cmdBuf, drained, aux, devVars>>

\* glfwPollEvents(): a close request sets the flag, which is never cleared.
\* The body ends here, so imageIndex goes out of scope.
CloseBy == IF setupFailed = "none" THEN MaxFrames ELSE MaxFailFrames

PollEvents ==
    /\ pc = "poll"
    /\ shouldClose' \in (IF frame >= CloseBy THEN {TRUE} ELSE {TRUE, shouldClose})
    /\ imageIndex' = NoIndex
    /\ pc' = "loopTest"
    /\ UNCHANGED <<faults, setupState, currentFrame, frame, acquireOk, presentErr,
                   cmdBuf, drained, aux, devVars>>

\* A vkDeviceWaitIdle that returns at once, whatever the queues hold.
DeviceIdleUnchecked == TRUE

\* vkDeviceWaitIdle returns once no queue has an operation outstanding.
DeviceIdle == inflight = {} /\ presentQ = <<>>

\* vkDeviceWaitIdle(device) after the while loop
LoopDrain ==
    /\ pc = "loopDrain"
    /\ IF Live({H("device", 0)})
       THEN /\ DeviceIdle
            /\ pc' = "cleanupDrain"
            /\ UNCHANGED allButPc
       ELSE Undefined("cleanupDrain")

\* ----------------------------------------------------------------- cleanup
\* vkDeviceWaitIdle(device) at the top of cleanup()
CleanupDrain ==
    /\ pc = "cleanupDrain"
    /\ IF Live({H("device", 0)})
       THEN /\ DeviceIdle
            /\ drained' = TRUE
            /\ pc' = "destroySync"
       ELSE /\ pc' \in {"crashed", "destroySync"}
            /\ drained' = drained
    /\ syncIdx' = 0
    /\ UNCHANGED <<faults, viewIdx, imageCount, valid, created, destroyed, setupFailed,
                   currentFrame, imageIndex, frame, shouldClose, acquireOk,
                   presentErr, cmdBuf, aux, devVars>>

\* A field that holds VK_NULL_HANDLE: an element of swapChainImageViews that
\* resize() value-initialized and the view loop never reached.  Every other
\* field of the object starts indeterminate.
IsNull(h) == h[1] = "imageView" /\ h[2] > viewIdx

\* vkDestroy*(device, field, nullptr) for each of `handles`, each of kind
\* `kind`: a live object is destroyed, a null handle is ignored, anything
\* else is undefined.
DestroyStep(at, parent, handles, kind, next) ==
    /\ pc = at
    /\ IF Live(parent) /\ \A h \in handles : h \in valid \/ IsNull(h)
       THEN /\ valid' = valid \ handles
            /\ destroyed' = [destroyed EXCEPT
                               ![kind] = @ + Cardinality(handles \cap valid)]
            /\ pc' = next
       ELSE /\ pc' \in {"crashed", next}
            /\ valid' = valid \ handles
            /\ destroyed' = [destroyed EXCEPT
                               ![kind] = @ + Cardinality(handles \cap valid)]
    /\ UNCHANGED <<faults, viewIdx, imageCount, created, setupFailed, loopLocals, devVars>>

\* A cleanup that destroys the device right after the semaphores and fences.
AfterSyncObjectsDevice == "destroyDevice"

\* vkDestroyCommandPool follows the loop over the semaphores and fences.
AfterSyncObjects == "destroyCommandPool"

\* for (size_t i = 0; i < MAX_FRAMES_IN_FLIGHT; ++i)
DestroySyncLoop ==
    /\ pc = "destroySync"
    /\ pc' = IF syncIdx < MAX_FRAMES_IN_FLIGHT THEN "destroyImgSem"
                                               ELSE AfterSyncObjects
    /\ UNCHANGED allButPc

DestroyImgSem ==
    /\ DestroyStep("destroyImgSem", {H("device", 0)}, {H("imgSem", syncIdx)},
                   "imgSem", "destroyRenSem")
    /\ syncIdx' = syncIdx

DestroyRenSem ==
    /\ DestroyStep("destroyRenSem", {H("device", 0)}, {H("renSem", syncIdx)},
                   "renSem", "destroyFence")
    /\ syncIdx' = syncIdx

DestroyFence ==
    /\ DestroyStep("destroyFence", {H("device", 0)}, {H("fence", syncIdx)},
                   "fence", "destroySync")
    /\ syncIdx' = syncIdx + 1

\* Destroying the pool frees the command buffers allocated from it.
DestroyCommandPool ==
    /\ DestroyStep("destroyCommandPool", {H("device", 0)}, {H("commandPool", 0)},
                   "commandPool", "destroyPipeline")
    /\ syncIdx' = syncIdx

DestroyPipeline ==
    /\ DestroyStep("destroyPipeline", {H("device", 0)}, {H("pipeline", 0)},
                   "pipeline", "destroyPipelineLayout")
    /\ syncIdx' = syncIdx

DestroyPipelineLayout ==
    /\ DestroyStep("destroyPipelineLayout", {H("device", 0)},
                   {H("pipelineLayout", 0)}, "pipelineLayout", "destroyImageViews")
    /\ syncIdx' = syncIdx

\* for (auto imageView : swapChainImageViews)
DestroyImageViews ==
    /\ DestroyStep("destroyImageViews", {H("device", 0)},
                   {H("imageView", i) : i \in 0 .. (imageCount - 1)},
                   "imageView", "destroySwapchain")
    /\ syncIdx' = syncIdx

DestroySwapchain ==
    /\ DestroyStep("destroySwapchain", {H("device", 0)}, {H("swapchain", 0)},
                   "swapchain", "destroyDevice")
    /\ syncIdx' = syncIdx

DestroyDevice ==
    /\ DestroyStep("destroyDevice", {}, {H("device", 0)}, "device", "destroySurface")
    /\ syncIdx' = syncIdx

DestroySurface ==
    /\ DestroyStep("destroySurface", {H("instance", 0)}, {H("surface", 0)},
                   "surface", "destroyInstance")
    /\ syncIdx' = syncIdx

DestroyInstance ==
    /\ DestroyStep("destroyInstance", {}, {H("instance", 0)}, "instance",
                   "destroyWindow")
    /\ syncIdx' = syncIdx

\* glfwDestroyWindow(window); glfwTerminate(); and run() returns.
DestroyWindow ==
    /\ pc = "destroyWindow"
    /\ valid' = valid \ {H("window", 0)}
    /\ pc' = "done"
    /\ UNCHANGED <<faults, viewIdx, syncIdx, imageCount, created, destroyed,
                   setupFailed, loopLocals, devVars>>

\* --------------------------------------------- graphics queue (the device)
\* Pipeline stages named by the program, in logical order.
StageRank(st) ==
    CASE st = "TOP_OF_PIPE" -> 0
      [] st = "COLOR_ATTACHMENT_OUTPUT" -> 1
      [] st = "BOTTOM_OF_PIPE" -> 2
      [] OTHER -> 0

\* The semaphore wait of a batch holds back the stages at or after its
\* pWaitDstStageMask; a barrier waits for the stages at or before its
\* srcStageMask.  The barrier's layout transition is ordered after the
\* semaphore wait only when the two sets of stages meet.
BarrierAfterWait(b) == StageRank(b.barrierSrc) >= StageRank(b.waitStage)

hostAll == <<pc, setupState, currentFrame, imageIndex, frame, shouldClose,
             acquireOk, presentErr, drained, aux, faults>>

\* The batch's wait on imageAvailableSemaphores[s] is satisfied and consumes
\* the signal.
DeviceSemaphoreWait ==
    \E b \in inflight :
       /\ ~b.waited
       /\ imgSem[b.waitSem] = "signaled"
       /\ imgSem' = [imgSem EXCEPT ![b.waitSem] = "unsignaled"]
       /\ inflight' = (inflight \ {b}) \cup {[b EXCEPT !.waited = TRUE]}
       /\ UNCHANGED <<hostAll, cmdBuf, fence, semImg, renSem, presentQ, owner,
                      peReading, layout, fresh>>

\* The first barrier of the command buffer executes: the image goes from
\* UNDEFINED (its contents are discarded, whatever layout it was in) to the
\* barrier's newLayout.
DeviceLayoutTransition ==
    \E b \in inflight :
       /\ b.stage = "queued"
       /\ BarrierAfterWait(b) => b.waited
       /\ inflight' = (inflight \ {b}) \cup {[b EXCEPT !.stage = "transitioned"]}
       /\ layout' = IF b.img \in Images THEN [layout EXCEPT ![b.img] = b.firstNew]
                                         ELSE layout
       /\ UNCHANGED <<hostAll, cmdBuf, fence, imgSem, semImg, renSem, presentQ,
                      owner, peReading, fresh>>

\* Rendering (color attachment output) runs once the wait is satisfied, then
\* the last barrier leaves the image in its newLayout; when the batch
\* completes, its signal semaphore and its fence are signaled and the
\* command buffer leaves the pending state.
DeviceComplete ==
    \E b \in inflight :
       /\ b.stage = "transitioned"
       /\ b.waited
       /\ inflight' = inflight \ {b}
       /\ renSem' = [renSem EXCEPT ![b.signalSem] = "signaled"]
       /\ fence' = [fence EXCEPT ![b.fence] = "signaled"]
       /\ cmdBuf' = [cmdBuf EXCEPT ![b.cb].state =
                        IF @ = "pending" THEN "executable" ELSE @]
       /\ layout' = IF b.img \in Images THEN [layout EXCEPT ![b.img] = b.lastNew]
                                         ELSE layout
       /\ UNCHANGED <<hostAll, imgSem, semImg, presentQ, owner, peReading, fresh>>

\* ----------------------------------------------------- presentation engine
\* The oldest present request executes once its wait semaphore is signaled:
\* it consumes the signal and, unless the request was rejected, the engine
\* starts reading the image.
PresentExecute ==
    /\ presentQ # <<>>
    /\ LET r == Head(presentQ) IN
          /\ renSem[r.waitSem] = "signaled"
          /\ renSem' = [renSem EXCEPT ![r.waitSem] = "unsignaled"]
          /\ peReading' = [peReading EXCEPT ![r.img] = r.ok]
    /\ presentQ' = Tail(presentQ)
    /\ UNCHANGED <<fresh, hostAll, cmdBuf, fence, imgSem, semImg, inflight, owner,
                   layout>>

\* The signal that vkAcquireNextImageKHR queued on the semaphore fires: the
\* engine has stopped reading the acquired image.
AcquireSignal ==
    \E s \in Slots :
       /\ imgSem[s] = "pending"
       /\ imgSem' = [imgSem EXCEPT ![s] = "signaled"]
       /\ peReading' = [peReading EXCEPT ![semImg[s]] = FALSE]
       /\ UNCHANGED <<fresh, hostAll, cmdBuf, fence, semImg, renSem, inflight,
                      presentQ, owner, layout>>

\* ------------------------------------------- the two source files compared
\* One call made by mainLoop: its name, the slot whose objects it is given,
\* the image index it is given and the commands recorded with it.
Call(name, s, i, cmds) == [call |-> name, slot |-> s, img |-> i, cmds |-> cmds]

NoSlot == MAX_FRAMES_IN_FLIGHT

\* mainLoop about to test its condition for the first time: currentFrame = 0.
NewRun == [currentFrame |-> 0, frames |-> 0, calls |-> <<>>, at |-> "loop"]

\* What the platform answers during one pass: the close flag at the loop
\* test, the index vkAcquireNextImageKHR writes (NoIndex: none), and the
\* results of vkBeginCommandBuffer, vkEndCommandBuffer and vkQueueSubmit.
Answers == [close : BOOLEAN, image : Images \cup {NoIndex},
            begin : BOOLEAN, end : BOOLEAN, submit : BOOLEAN]

\* `return` inside the loop body.
Returned(run, calls) ==
    [run EXCEPT !.calls = @ \o calls, !.frames = @ + 1, !.at = "returned"]

\* src/MainClean.cpp 592-734: one test of the loop condition and, if the
\* window is open, one pass of the body.
MainCleanPass(run, a) ==
    LET s == run.currentFrame
        toBegin == << Call("vkWaitForFences", s, NoIndex, <<>>),
                      Call("vkResetFences", s, NoIndex, <<>>),
                      Call("vkAcquireNextImageKHR", s, NoIndex, <<>>),
                      Call("vkResetCommandBuffer", s, NoIndex, <<>>),
                      Call("vkBeginCommandBuffer", s, NoIndex, <<>>) >>
        toEnd == toBegin \o << Call("vkCmd", s, a.image, RecordedCommands(a.image)),
                               Call("vkEndCommandBuffer", s, NoIndex, <<>>) >>
        toSubmit == toEnd \o << Call("vkQueueSubmit", s, NoIndex, <<>>) >>
    IN  IF a.close
        THEN [run EXCEPT !.calls = Append(@, Call("vkDeviceWaitIdle", NoSlot, NoIndex, <<>>)),
                         !.at = "left"]
        ELSE IF ~a.begin THEN Returned(run, toBegin)
        ELSE IF ~a.end THEN Returned(run, toEnd)
        ELSE IF ~a.submit THEN Returned(run, toSubmit)
        ELSE [currentFrame |-> NextFrame(s),
              frames |-> run.frames + 1,
              calls |-> run.calls \o toSubmit
                           \o << Call("vkQueuePresentKHR", s, a.image, <<>>),
                                 Call("glfwPollEvents", NoSlot, NoIndex, <<>>) >>,
              at |-> "loop"]

\* src/unnamed/part_000 966-1046: the vkCmd* calls of one pass.
PartCommands(i) ==
    << Cmd("pipelineBarrier", i, "UNDEFINED", "COLOR_ATTACHMENT_OPTIMAL",
           "TOP_OF_PIPE", "COLOR_ATTACHMENT_OUTPUT", 0, 0),
       Cmd("beginRendering", i, "CLEAR_0_0_0_1", "STORE", "ATTACHMENT_OPTIMAL", "-", 0, 0),
       Cmd("bindPipeline", NoIndex, "-", "-", "-", "-", 0, 0),
       Cmd("setViewport", NoIndex, "-", "-", "-", "-", 0, 0),
       Cmd("setScissor", NoIndex, "-", "-", "-", "-", 0, 0),
       Cmd("draw", NoIndex, "-", "-", "-", "-", 3, 1),
       Cmd("endRendering", NoIndex, "-", "-", "-", "-", 0, 0),
       Cmd("pipelineBarrier", i, "COLOR_ATTACHMENT_OPTIMAL", "PRESENT_SRC_KHR",
           "COLOR_ATTACHMENT_OUTPUT", "BOTTOM_OF_PIPE", 0, 0) >>

\* A slot advance that goes two slots on.
PartAdvanceTwice(f) == (f + 2) % MAX_FRAMES_IN_FLIGHT

\* src/unnamed/part_000 1086: currentFrame = (currentFrame + 1) % MAX_FRAMES_IN_FLIGHT
PartAdvance(f) == (f + 1) % MAX_FRAMES_IN_FLIGHT

\* src/unnamed/part_000 930-1091: one test of the loop condition and, if the
\* window is open, one pass of the body.
PartPass(run, a) ==
    IF a.close
    THEN [run EXCEPT !.calls = Append(@, Call("vkDeviceWaitIdle", NoSlot, NoIndex, <<>>)),
                     !.at = "left"]
    ELSE LET s == run.currentFrame
             wait == Call("vkWaitForFences", s, NoIndex, <<>>)
             reset == Call("vkResetFences", s, NoIndex, <<>>)
             acquire == Call("vkAcquireNextImageKHR", s, NoIndex, <<>>)
             resetCmd == Call("vkResetCommandBuffer", s, NoIndex, <<>>)
             begin == Call("vkBeginCommandBuffer", s, NoIndex, <<>>)
             record == Call("vkCmd", s, a.image, PartCommands(a.image))
             end == Call("vkEndCommandBuffer", s, NoIndex, <<>>)
             submit == Call("vkQueueSubmit", s, NoIndex, <<>>)
             present == Call("vkQueuePresentKHR", s, a.image, <<>>)
             poll == Call("glfwPollEvents", NoSlot, NoIndex, <<>>)
         IN  IF ~a.begin
             THEN Returned(run, <<wait, reset, acquire, resetCmd, begin>>)
             ELSE IF ~a.end
             THEN Returned(run, <<wait, reset, acquire, resetCmd, begin, record, end>>)
             ELSE IF ~a.submit
             THEN Returned(run, <<wait, reset, acquire, resetCmd, begin, record, end, submit>>)
             ELSE [currentFrame |-> PartAdvance(s),
                   frames |-> run.frames + 1,
                   calls |-> run.calls \o <<wait, reset, acquire, resetCmd, begin, record,
                                           end, submit, present, poll>>,
                   at |-> "loop"]

\* Both copies of mainLoop make one more pass, on the same answers; after
\* MaxPairFrames passes the window is closed.
PairPass ==
    /\ runMain.at = "loop"
    /\ runPart.at = "loop"
    /\ \E a \in Answers :
          /\ runMain.frames >= MaxPairFrames => a.close
          /\ runMain' = MainCleanPass(runMain, a)
          /\ runPart' = PartPass(runPart, a)
    /\ UNCHANGED <<pc, setupState, currentFrame, imageIndex, frame, shouldClose,
                   acquireOk, presentErr, cmdBuf, drained, faults, loopError,
                   iterOps, recorded, caps, extent, setupData, slotUse, devVars,
                   script>>

\* -------------------------------------------------- auto-vulkan-setup.bat
\* The echo lines that append to src\Main.cpp and to CMakeLists.txt.
MainLines == 16
CMakeLines == 15

\* A path of the folder: nothing there, or a file of n lines, or a directory
\* (n = 1 when it holds a clone, 0 otherwise).
Absent == [exists |-> FALSE, size |-> 0]
Holding(n) == [exists |-> TRUE, size |-> n]

\* A script whose "if not exist" tests always pass.
NotExistAlways(entry) == TRUE

\* if not exist <path>
NotExist(entry) == ~entry.exists

\* The commands of the script in the order of its text.  `checked`: the
\* result of the command is tested ("|| ( ... exit /b 1 )" or
\* "if errorlevel 1 ( ... exit /b 1 )") before the next step.
Steps ==
    <<[do |-> "mkdir", path |-> "src", lines |-> 0, checked |-> TRUE],
      [do |-> "mkdir", path |-> "vendor", lines |-> 0, checked |-> TRUE],
      [do |-> "clone", path |-> "vendor\\glfw", lines |-> 0, checked |-> TRUE],
      [do |-> "clone", path |-> "vendor\\glm", lines |-> 0, checked |-> TRUE],
      [do |-> "write", path |-> "src\\Main.cpp", lines |-> MainLines,
       checked |-> FALSE],
      [do |-> "write", path |-> "CMakeLists.txt", lines |-> CMakeLines,
       checked |-> TRUE],
      [do |-> "mkdir", path |-> "build", lines |-> 0, checked |-> TRUE],
      [do |-> "cd", path |-> "build", lines |-> 0, checked |-> TRUE],
      [do |-> "configure", path |-> "build", lines |-> 0, checked |-> TRUE],
      [do |-> "build", path |-> "build", lines |-> 0, checked |-> TRUE]>>

Paths == {Steps[i].path : i \in DOMAIN Steps}

\* The folders the script may be started in: a file lies in an existing
\* directory; a file is empty or has the lines the script writes; a
\* dependency directory is empty or holds a clone.
FileSystems ==
    {f \in [Paths -> {Absent, Holding(0), Holding(1), Holding(MainLines),
                      Holding(CMakeLines)}] :
        /\ \A d \in {"src", "vendor", "build"} : f[d].size = 0
        /\ \A d \in {"vendor\\glfw", "vendor\\glm"} :
              f[d].size <= 1 /\ (f[d].exists => f["vendor"].exists)
        /\ f["src\\Main.cpp"].size \in {0, MainLines}
        /\ f["src\\Main.cpp"].exists => f["src"].exists
        /\ f["CMakeLists.txt"].size \in {0, CMakeLines}}

\* The script has not been run.
NewScript ==
    [status |-> "idle", run |-> 0, at |-> 0,
     fs |-> [p \in Paths |-> Absent], given |-> [p \in Paths |-> Absent],
     atStart |-> [p \in Paths |-> Absent], first |-> [p \in Paths |-> Absent],
     errorlevel |-> 0, ran |-> <<>>, failed |-> {}, exitCode |-> 0,
     message |-> FALSE, faults |-> 0]

\* A step of the script: the program is not running.
ScriptStep(s) ==
    /\ script' = s
    /\ UNCHANGED <<pc, setupState, currentFrame, imageIndex, frame, shouldClose,
                   acquireOk, presentErr, cmdBuf, drained, faults, loopError,
                   iterOps, recorded, caps, extent, setupData, slotUse, devVars,
                   runMain, runPart>>

\* The script is at a command of the kind `do`.
Now(do) ==
    /\ script.status = "running"
    /\ script.at \in DOMAIN Steps
    /\ Steps[script.at].do = do

\* The command at hand ran and succeeded on the folder f.
Passed(f) ==
    [script EXCEPT !.fs = f, !.errorlevel = 0, !.ran = Append(@, script.at),
                   !.at = @ + 1]

\* The command at hand ran and failed: echo [Error] ... and exit /b 1.
ErrorExit ==
    [script EXCEPT !.status = "exited", !.exitCode = 1, !.errorlevel = 1,
                   !.ran = Append(@, script.at),
                   !.failed = @ \cup {script.at}, !.faults = @ + 1]

\* The user runs the script, the first time in any folder of FileSystems,
\* later in the folder the run before left.  setlocal EnableDelayedExpansion
\* sets ERRORLEVEL to 0, and the end of a run restores the directory the
\* run was started in.
Launch ==
    /\ script.status \in {"idle", "exited"}
    /\ script.run < MaxRuns
    /\ \E f \in (IF script.run = 0 THEN FileSystems ELSE {script.fs}) :
          ScriptStep([status |-> "running", run |-> script.run + 1, at |-> 1,
                      fs |-> f,
                      given |-> IF script.run = 0 THEN f ELSE script.given,
                      atStart |-> f,
                      first |-> IF script.run <= 1 THEN f ELSE script.first,
                      errorlevel |-> 0, ran |-> <<>>, failed |-> {},
                      exitCode |-> 0, message |-> FALSE,
                      faults |-> script.faults])

\* if not exist <dir> ( mkdir <dir> || ( echo [Error] ... & exit /b 1 ) )
\* mkdir fails on a path that exists.
Mkdir ==
    /\ Now("mkdir")
    /\ LET path == Steps[script.at].path
       IN  IF NotExist(script.fs[path])
           THEN \/ /\ ~script.fs[path].exists
                   /\ ScriptStep(Passed([script.fs EXCEPT ![path] = Holding(0)]))
                \/ /\ script.fs[path].exists \/ script.faults < MaxScriptFaults
                   /\ ScriptStep(ErrorExit)
           ELSE ScriptStep([script EXCEPT !.at = @ + 1])

\* if not exist vendor\<lib> ( git clone <url> vendor/<lib> || ( ... exit /b 1 ) )
\* git clone fails on a directory that is not empty, and removes what it
\* created when it fails.
Clone ==
    /\ Now("clone")
    /\ LET path == Steps[script.at].path
       IN  IF NotExist(script.fs[path])
           THEN \/ /\ script.fs[path].size = 0
                   /\ ScriptStep(Passed([script.fs EXCEPT ![path] = Holding(1)]))
                \/ /\ script.fs[path].size > 0 \/ script.faults < MaxScriptFaults
                   /\ ScriptStep(ErrorExit)
           ELSE ScriptStep([script EXCEPT !.at = @ + 1])

\* How many of n redirected echo lines reach the file: none, all but one, all.
Written(n) == {0, n - 1, n}

\* if not exist <file> ( ... goto write_x ) / goto skip_x, and under write_x
\* the lines ">> <file> echo ...": each appends one line; a line whose
\* redirection fails is not written and sets ERRORLEVEL to 1, echo leaves
\* ERRORLEVEL as it is.  Only write_cmake ends with "if errorlevel 1".
Write ==
    /\ Now("write")
    /\ LET step == Steps[script.at]
           old == script.fs[step.path]
       IN  IF NotExist(old)
           THEN \E k \in Written(step.lines) :
                   LET new == IF k = 0 /\ ~old.exists THEN old
                                                      ELSE Holding(old.size + k)
                       level == IF k < step.lines THEN 1 ELSE script.errorlevel
                       wrote == [script EXCEPT !.fs[step.path] = new,
                                               !.errorlevel = level,
                                               !.ran = Append(@, script.at),
                                               !.failed = IF k < step.lines
                                                          THEN @ \cup {script.at}
                                                          ELSE @,
                                               !.faults = IF k < step.lines
                                                          THEN @ + 1 ELSE @]
                   IN  /\ k < step.lines => script.faults < MaxScriptFaults
                       /\ ScriptStep(IF step.checked /\ level >= 1
                                     THEN [wrote EXCEPT !.status = "exited",
                                                        !.exitCode = 1]
                                     ELSE [wrote EXCEPT !.at = @ + 1])
           ELSE ScriptStep([script EXCEPT !.at = @ + 1])

\* cd build || ( ... exit /b 1 ), and each of the two cmake commands
\* followed by if errorlevel 1 ( ... exit /b 1 ).
Command ==
    /\ Now("cd") \/ Now("configure") \/ Now("build")
    /\ \/ ScriptStep(Passed(script.fs))
       \/ /\ script.faults < MaxScriptFaults
          /\ ScriptStep(ErrorExit)

\* echo [Done] Vulkan app built successfully! and the end of the file.
Done ==
    /\ script.status = "running"
    /\ script.at = Len(Steps) + 1
    /\ ScriptStep([script EXCEPT !.status = "exited", !.message = TRUE,
                                 !.exitCode = script.errorlevel])

\* ------------------------------------------------------------ specification
\* this->extent before initVulkan assigns it.
NoExtent == <<0, 0>>

\* this->surfaceFormat and the format of an object before initVulkan sets them.
NoFormat == "none"
NoSurfaceFormat == [format |-> NoFormat, colorSpace |-> "none"]

\* The state when run() calls initVulkan() (at = "createInstance"), or a
\* later state of initVulkan in which the objects of `kinds` exist; initWindow
\* has created the window:
\* HelloTraingleApp has no member initializers, swapChainImageViews is an
\* empty vector.
StartWith(at, kinds, c, formats) ==
    /\ pc = at
    /\ viewIdx = 0
    /\ syncIdx = 0
    /\ imageCount = 0
    /\ valid = {H(k, 0) : k \in kinds \cup {"window"}}
    /\ created = [k \in Kinds |-> IF k \in kinds THEN 1 ELSE 0]
    /\ destroyed = [k \in Kinds |-> 0]
    /\ setupFailed = "none"
    /\ currentFrame = 0
    /\ imageIndex = NoIndex
    /\ frame = 0
    /\ shouldClose = FALSE
    /\ acquireOk = FALSE
    /\ presentErr = FALSE
    /\ cmdBuf = [s \in Slots |-> FreshCmdBuf]
    /\ fence = [s \in Slots |-> "unsignaled"]
    /\ imgSem = [s \in Slots |-> "unsignaled"]
    /\ semImg = [s \in Slots |-> 0]
    /\ renSem = [s \in Slots |-> "unsignaled"]
    /\ inflight = {}
    /\ presentQ = <<>>
    /\ owner = [i \in Images |-> "pe"]
    /\ peReading = [i \in Images |-> FALSE]
    /\ layout = [i \in Images |-> "UNDEFINED"]
    /\ fresh = 0
    /\ drained = FALSE
    /\ faults = 0
    /\ loopError = "none"
    /\ iterOps = NoOps
    /\ recorded = [s \in Slots |-> [i \in Images |-> <<>>]]
    /\ caps = c
    /\ extent = NoExtent
    /\ shaderBlob = NoBlob
    /\ pipelineBlob = NoBlob
    /\ runMain = NewRun
    /\ runPart = NewRun
    /\ slotUse = [s \in Slots |-> NoUse]
    /\ surfaceFormats = formats
    /\ surfaceFormat = NoSurfaceFormat
    /\ formatOf = [swapchain |-> NoFormat, views |-> [i \in Images |-> NoFormat],
                   pipeline |-> NoFormat]
    /\ drawArea = [viewport |-> NoExtent, scissor |-> NoExtent]
    /\ script = NewScript

\* The surface formats of the runs of Spec: the preferred format is offered,
\* but not first.
DefaultFormats ==
    <<[format |-> "B8G8R8A8_UNORM", colorSpace |-> "SRGB_NONLINEAR"],
      PreferredFormat>>

Start(at, kinds, c) == StartWith(at, kinds, c, DefaultFormats)

\* The non-empty format lists a surface may report.
FormatLists ==
    UNION {[1 .. n -> FormatValues] : n \in 1 .. MaxFormats}

\* The surface data of the runs of Spec: no fixed extent, a framebuffer as
\* large as the surface allows.
DefaultCaps ==
    [current |-> <<UINT32_MAX, UINT32_MAX>>, min |-> <<1, 1>>,
     max |-> <<MaxExtent, MaxExtent>>, fb |-> <<MaxExtent, MaxExtent>>]

Init == Start("createInstance", {}, DefaultCaps)

\* initVulkan has created the device and is about to query the surface,
\* whatever the platform reports for it.
ExtentInit ==
    \E c \in ValidCaps : Start("querySurface", {"instance", "surface", "device"}, c)

ExtentNext == QuerySurface

\* initVulkan has created the device and is about to query the surface,
\* whatever list of formats the surface reports.
FormatInit ==
    \E fs \in FormatLists :
       StartWith("querySurface", {"instance", "surface", "device"}, DefaultCaps, fs)

\* run() has called mainLoop() in both files.
PairInit == Start("loopTest", Kinds, DefaultCaps)

PairNext == PairPass

\* initVulkan from the query of the surface on.
FormatNext ==
    \/ QuerySurface \/ CreateSwapchain \/ ViewLoop \/ CreateImageView
    \/ OpenVertexShader \/ OpenFragmentShader \/ CreateVertexModule
    \/ CreateFragmentModule \/ CreatePipelineLayout \/ CreatePipeline
    \/ CreateCommandPool \/ AllocateCommandBuffers \/ SyncLoop
    \/ CreateImgSem \/ CreateRenSem \/ CreateFence

InitVulkan ==
    \/ CreateInstance \/ CreateSurface \/ EnumerateDevices \/ CreateDevice
    \/ QuerySurface \/ CreateSwapchain \/ ViewLoop \/ CreateImageView
    \/ OpenVertexShader \/ OpenFragmentShader \/ CreateVertexModule
    \/ CreateFragmentModule \/ CreatePipelineLayout \/ CreatePipeline
    \/ CreateCommandPool \/ AllocateCommandBuffers \/ SyncLoop
    \/ CreateImgSem \/ CreateRenSem \/ CreateFence

MainLoop ==
    \/ LoopTest \/ WaitForFence \/ ResetFence \/ AcquireNextImage
    \/ ResetCommandBuffer \/ BeginCommandBuffer \/ RecordCommands
    \/ EndCommandBuffer \/ QueueSubmit \/ QueuePresent \/ AdvanceFrame
    \/ PollEvents \/ LoopDrain

Cleanup ==
    \/ CleanupDrain \/ DestroySyncLoop \/ DestroyImgSem \/ DestroyRenSem
    \/ DestroyFence \/ DestroyCommandPool \/ DestroyPipeline
    \/ DestroyPipelineLayout \/ DestroyImageViews \/ DestroySwapchain
    \/ DestroyDevice \/ DestroySurface \/ DestroyInstance \/ DestroyWindow

Device ==
    \/ DeviceSemaphoreWait \/ DeviceLayoutTransition \/ DeviceComplete
    \/ PresentExecute \/ AcquireSignal

Next == InitVulkan \/ MainLoop \/ Cleanup \/ Device

Spec == Init /\ [][Next]_vars

\* The resolution of the surface extent, for every surface data.
ExtentSpec == ExtentInit /\ [][ExtentNext]_vars

\* The formats initVulkan builds its objects with, for every list of surface
\* formats.
FormatSpec == FormatInit /\ [][FormatNext]_vars

\* mainLoop of the two source files, run on the same answers of the platform.
PairSpec == PairInit /\ [][PairNext]_vars

ScriptNext == Launch \/ Mkdir \/ Clone \/ Write \/ Command \/ Done

\* Runs of auto-vulkan-setup.bat.
ScriptSpec == Init /\ [][ScriptNext]_vars

\* ---------------------------------------------------------------- properties
\* Positions of mainLoop between vkResetCommandBuffer and vkQueueSubmit: the
\* host is resetting, recording or about to submit commandBuffers[currentFrame].
RecordingPcs == {"resetCmd", "beginCmd", "record", "endCmd", "submit"}

\* Positions inside the body of the while loop of mainLoop.
LoopBodyPcs == {"waitFence", "resetFence", "acquire"} \cup RecordingPcs
                  \cup {"present", "advance", "poll"}

\* Positions of cleanup after its vkDeviceWaitIdle, and the end of run().
DestroyPcs == {"destroySync", "destroyImgSem", "destroyRenSem", "destroyFence",
               "destroyCommandPool", "destroyPipeline", "destroyPipelineLayout",
               "destroyImageViews", "destroySwapchain", "destroyDevice",
               "destroySurface", "destroyInstance", "destroyWindow", "done"}

\* initVulkan ran to its end and no later call has reported an error.
NoCallFailed == setupFailed = "none" /\ faults = 0

\* The device has begun executing the commands of batch b on its image.
DeviceTouches(b) == b.stage # "queued"

\* C1: whenever the host resets or records the command buffer of slot s, the
\* device has finished the previous submission of that command buffer: no
\* batch that executes commandBuffers[s] is in flight and the buffer is not
\* pending.
C1_CommandBufferReuse ==
    pc \in RecordingPcs =>
       /\ \A b \in inflight : b.cb # currentFrame
       /\ cmdBuf[currentFrame].state # "pending"

\* The host records a slot for the second time while the frame of the other
\* slot is still executing.
C1_Witness ==
    /\ pc = "record"
    /\ setupFailed = "none"
    /\ frame > MAX_FRAMES_IN_FLIGHT
    /\ inflight # {}

\* C2: at most MAX_FRAMES_IN_FLIGHT frames are submitted and not completed,
\* and while the host records a frame at most MAX_FRAMES_IN_FLIGHT - 1 earlier
\* frames are still executing.
C2_FramesInFlight ==
    /\ Cardinality(inflight) <= MAX_FRAMES_IN_FLIGHT
    /\ pc \in RecordingPcs => Cardinality(inflight) <= MAX_FRAMES_IN_FLIGHT - 1

\* The bound is met: as many frames execute as there are slots.
C2_Witness ==
    /\ setupFailed = "none"
    /\ Cardinality(inflight) = MAX_FRAMES_IN_FLIGHT

\* C3: an image is never used by two owners at a time: while the device
\* executes a frame's commands on an image, the presentation engine is not
\* reading that image, no other frame's batch has touched it and no earlier
\* frame's presentation of it is outstanding.
C3_ImageOwnership ==
    NoCallFailed =>
       \A b \in inflight :
          (DeviceTouches(b) /\ b.img < imageCount) =>
             /\ ~peReading[b.img]
             /\ \A c \in inflight :
                   (c # b /\ c.img = b.img) => ~DeviceTouches(c)
             /\ \A k \in 1 .. Len(presentQ) :
                   presentQ[k].img = b.img => presentQ[k].frame >= b.frame

\* C4: every path into the destruction of the objects first waits until the
\* device has completed all submitted work: while cleanup destroys, and when
\* run() has ended, no queue holds an operation, and the vkDeviceWaitIdle of
\* cleanup has returned whenever a device was created.
C4_DrainBeforeDestroy ==
    pc \in DestroyPcs =>
       /\ inflight = {}
       /\ presentQ = <<>>
       /\ created["device"] > 0 => drained

\* cleanup destroys after an early return of mainLoop (the window was not
\* closed) in a run that had already submitted a frame.
C4_Witness ==
    /\ pc = "destroySync"
    /\ setupFailed = "none"
    /\ ~shouldClose
    /\ frame >= 2
    /\ drained

\* C5: when a frame is submitted, the presentation engine's wait on the
\* slot's render-finished semaphore for the slot's previous frame has been
\* consumed: no present request that waits on that semaphore is outstanding.
C5_RenderFinishedConsumed ==
    (NoCallFailed /\ pc = "submit") =>
       \A k \in 1 .. Len(presentQ) : presentQ[k].waitSem # SubmitSlot

\* C6: when acquire is issued, the slot's image-available semaphore is
\* unsignaled, with no signal pending on it and no submitted batch still to
\* wait on it (in runs in which initVulkan created every object).
C6_ImageAvailableFree ==
    (setupFailed = "none" /\ pc = "acquire") =>
       /\ imgSem[currentFrame] = "unsignaled"
       /\ \A b \in inflight : b.waitSem = currentFrame => b.waited

\* acquire is about to be issued with a semaphore that an earlier frame of
\* the slot has used.
C6_Witness ==
    /\ pc = "acquire"
    /\ setupFailed = "none"
    /\ frame > MAX_FRAMES_IN_FLIGHT
    /\ inflight # {}

\* C7: no device operation of a frame touches the acquired image, the first
\* layout transition included, before the frame's wait on the image-available
\* semaphore is satisfied.
C7_TouchAfterImageAvailable ==
    NoCallFailed => \A b \in inflight : DeviceTouches(b) => b.waited

\* C8: once a present request has failed, the host performs no further
\* iteration of the loop: it is never again at a position of the loop body
\* before the present call.
C8_PresentFailureStops ==
    (setupFailed = "none" /\ presentErr) =>
       pc \notin ({"waitFence", "resetFence", "acquire"} \cup RecordingPcs)

\* C9: when acquire has failed, nothing is recorded, submitted or presented
\* in that iteration: the host is at the recording, submit or present
\* positions only with an image index that acquire returned.
C9_AcquireFailureStops ==
    (setupFailed = "none" /\ pc \in {"record", "endCmd", "submit", "present"})
       => acquireOk

\* C10: after a step of initVulkan has failed, the frame loop is not entered:
\* no fence wait, acquire, record, submit or present is performed.
C10_SetupFailureAborts ==
    setupFailed # "none" => pc \notin LoopBodyPcs

\* C11: once vkBeginCommandBuffer, vkEndCommandBuffer or vkQueueSubmit has
\* failed, the host is in cleanup (or the process has died there) and never
\* in the loop again, no present was issued in the failing iteration, and
\* nothing is destroyed before the device is idle.
C11_LoopFailureStops ==
    loopError # "none" =>
       /\ pc \in {"cleanupDrain", "crashed"} \cup DestroyPcs
       /\ iterOps.present = 0
       /\ \A k \in 1 .. Len(presentQ) : presentQ[k].frame # frame
       /\ pc \in DestroyPcs => (drained /\ inflight = {} /\ presentQ = <<>>)

\* vkQueueSubmit failed in an iteration after the first, and cleanup has
\* waited for the earlier frames before it destroys.
C11_Witness ==
    /\ loopError = "submit"
    /\ frame >= 2
    /\ pc = "destroySync"

\* The steps of initVulkan that open the compiled shader files.
ShaderLoadSteps == {"openShaders", "openFragmentShader"}

\* C12: when initVulkan returns because a compiled shader file could not be
\* opened, no swapchain, swapchain image or image view has been created.
C12_ShaderCheckedBeforeSwapchain ==
    setupFailed \in ShaderLoadSteps =>
       /\ created["swapchain"] = 0
       /\ created["imageView"] = 0
       /\ imageCount = 0

\* C13: in a run whose initVulkan succeeded, when the loop runs the pipeline
\* and the command pool have been created once, the command buffers
\* allocated once, and MAX_FRAMES_IN_FLIGHT semaphores of each kind and
\* fences created, however many images the swapchain has.
C13_ConstructedOnce ==
    (setupFailed = "none" /\ pc \in LoopBodyPcs) =>
       /\ created["pipeline"] = 1
       /\ created["commandPool"] = 1
       /\ created["commandBuffers"] = 1
       /\ created["imgSem"] = MAX_FRAMES_IN_FLIGHT
       /\ created["renSem"] = MAX_FRAMES_IN_FLIGHT
       /\ created["fence"] = MAX_FRAMES_IN_FLIGHT

\* C14: the n-th iteration of the loop (n from 0) uses slot
\* n mod MAX_FRAMES_IN_FLIGHT: currentFrame starts at 0, is within the slot
\* range, and steps by one modulo MAX_FRAMES_IN_FLIGHT at the end of each
\* iteration.  `frame` counts the iterations started, so iteration n has
\* frame = n + 1.
C14_SlotOfIteration ==
    /\ currentFrame \in Slots
    /\ pc \in (LoopBodyPcs \ {"poll"}) =>
          currentFrame = (frame - 1) % MAX_FRAMES_IN_FLIGHT
    /\ pc \in {"poll", "loopTest"} => currentFrame = frame % MAX_FRAMES_IN_FLIGHT

\* The third iteration has begun and uses slot 0 again, after 0 and 1.
C14_Witness ==
    /\ pc = "waitFence"
    /\ frame = 3
    /\ currentFrame = 0

\* C15: every fence is created signaled: when the loop is entered after a
\* successful initVulkan all fences are signaled, and in the first
\* MAX_FRAMES_IN_FLIGHT iterations the fence the host waits on is signaled
\* although nothing was ever submitted with it.
C15_FencesPreSignaled ==
    setupFailed = "none" =>
       /\ (pc = "loopTest" /\ frame = 0) => \A s \in Slots : fence[s] = "signaled"
       /\ (pc = "waitFence" /\ frame <= MAX_FRAMES_IN_FLIGHT) =>
             /\ fence[currentFrame] = "signaled"
             /\ \A b \in inflight : b.fence # currentFrame

\* The first wait on the fence of the last slot has returned while the frame
\* of an earlier slot is still executing: no device work completed for it.
C15_Witness ==
    /\ setupFailed = "none"
    /\ pc = "resetFence"
    /\ frame = MAX_FRAMES_IN_FLIGHT
    /\ inflight # {}
    /\ \A b \in inflight : b.fence # currentFrame

\* The semaphore wait of batch b is satisfied or will be: the signal it
\* waits for has fired or is pending.
WillComplete(b) == b.waited \/ imgSem[b.waitSem] \in {"pending", "signaled"}

\* C16: whenever the host waits on a slot's fence, the fence is signaled or
\* a submitted batch that the device can complete will signal it, so the
\* wait returns.
C16_FenceWaitReturns ==
    (setupFailed = "none" /\ pc = "waitFence") =>
       \/ fence[currentFrame] = "signaled"
       \/ \E b \in inflight : b.fence = currentFrame /\ WillComplete(b)

\* vkAcquireNextImageKHR can return an image now, without the presentation
\* engine having to make progress first.
AcquireCanSucceed == \E i \in Images : Acquirable(i)

OneOfEach == [acquire |-> 1, submit |-> 1, present |-> 1]

\* C18: the close request is examined only between iterations.  When no call
\* has failed, at most one acquire, submit and present are made per
\* iteration, exactly one of each has been made when the loop condition is
\* examined again or the loop is left, and no acquired image is then still
\* unpresented.
C18_StopOnlyBetweenIterations ==
    NoCallFailed =>
       /\ iterOps.acquire <= 1 /\ iterOps.submit <= 1 /\ iterOps.present <= 1
       /\ (pc \in {"poll", "loopTest", "loopDrain"} /\ frame >= 1) =>
             iterOps = OneOfEach
       /\ pc \in {"loopTest", "loopDrain", "waitFence", "resetFence", "acquire"} =>
             \A i \in Images : owner[i] # "app"
       /\ pc = "loopDrain" => shouldClose

\* The window was closed during the second iteration; the iteration was
\* completed and the loop is left with its image presented.
C18_Witness ==
    /\ NoCallFailed
    /\ pc = "loopDrain"
    /\ frame = 2
    /\ iterOps = OneOfEach

\* initVulkan has resolved this->extent.
ExtentResolved == pc = "createSwapchain"

\* The platform reports no fixed extent.
NoFixedExtent == caps.current[1] = UINT32_MAX

\* C19 (as stated): the resolved extent equals the framebuffer size when the
\* platform reports the special extent and the reported extent otherwise,
\* and lies within [minImageExtent, maxImageExtent].
C19_ExtentEqualsFramebuffer ==
    ExtentResolved =>
       /\ extent = IF NoFixedExtent THEN caps.fb ELSE caps.current
       /\ \A d \in {1, 2} : caps.min[d] <= extent[d] /\ extent[d] <= caps.max[d]

\* C19 (amended): when the platform reports the special extent the resolved
\* extent is, in each dimension, the framebuffer size if that lies within
\* [minImageExtent, maxImageExtent] and the nearer limit if not; otherwise it
\* is the reported extent; in both cases it lies within the limits.
C19_ExtentResolution ==
    ExtentResolved =>
       \A d \in {1, 2} :
          /\ caps.min[d] <= extent[d] /\ extent[d] <= caps.max[d]
          /\ ~NoFixedExtent => extent[d] = caps.current[d]
          /\ NoFixedExtent =>
                /\ caps.fb[d] < caps.min[d] => extent[d] = caps.min[d]
                /\ caps.fb[d] > caps.max[d] => extent[d] = caps.max[d]
                /\ (caps.min[d] <= caps.fb[d] /\ caps.fb[d] <= caps.max[d]) =>
                      extent[d] = caps.fb[d]

\* No fixed extent, and a framebuffer wider than the surface allows: the
\* resolved width is the maximum, not the framebuffer's.
C19_Witness ==
    /\ ExtentResolved
    /\ NoFixedExtent
    /\ caps.fb[1] > caps.max[1]
    /\ extent[1] = caps.max[1]

\* Images for which slot s has recorded at least once.
RecordedImages(s) == {i \in Images : recorded[s][i] # <<>>}

C21_EmptyOrMissingShaderFails ==
    /\ (\E st \in {"missing", "empty"} : st \in {shaderBlob.vert, shaderBlob.frag})
          => setupFailed \in ShaderLoadSteps
    /\ "empty" \notin {pipelineBlob.vert, pipelineBlob.frag}

HostOrder(at) ==
    CASE at = "loopTest" -> {"waitFence", "loopDrain"}
      [] at = "waitFence" -> {"resetFence"}
      [] at = "resetFence" -> {"acquire"}
      [] at = "acquire" -> {"resetCmd"}
      [] at = "resetCmd" -> {"beginCmd"}
      [] at = "beginCmd" -> {"record", "cleanupDrain"}
      [] at = "record" -> {"endCmd"}
      [] at = "endCmd" -> {"submit", "cleanupDrain"}
      [] at = "submit" -> {"present", "cleanupDrain"}
      [] at = "present" -> {"advance"}
      [] at = "advance" -> {"poll"}
      [] at = "poll" -> {"loopTest"}
      [] OTHER -> {}

\* One step of the host inside the loop follows the order of the body, or
\* the process dies in the call.
InLoopOrder ==
    (pc \in LoopBodyPcs \cup {"loopTest"} /\ pc' # pc) =>
       pc' \in HostOrder(pc) \cup {"crashed"}

\* C23: in every iteration the host goes through fence wait, fence reset,
\* acquire, command buffer reset, recording, submit, present, slot advance and
\* event poll in this order, and the first call of the next iteration follows
\* only the loop test that follows the event poll, hence the present, of the
\* iteration before.
C23_IterationOrder == [][InLoopOrder]_vars

\* The second iteration waits for its fence while the present request of the
\* first is still on the present queue.
C23_Witness ==
    /\ NoCallFailed
    /\ pc = "waitFence"
    /\ frame = 2
    /\ iterOps = NoOps
    /\ \E k \in 1 .. Len(presentQ) : presentQ[k].frame = 1

SlotOfBatch(b) == (b.frame - 1) % MAX_FRAMES_IN_FLIGHT

\* C25: every submitted batch takes its command buffer, the image-available
\* semaphore it waits on, the render-finished semaphore it signals and its
\* fence from one slot, the slot of the iteration that submitted it, and
\* waits at the color-attachment-output stage.
C25_SubmitUsesOneSlot ==
    \A b \in inflight :
       /\ b.cb = SlotOfBatch(b)
       /\ b.waitSem = b.cb
       /\ b.signalSem = b.cb
       /\ b.fence = b.cb
       /\ b.waitStage = "COLOR_ATTACHMENT_OUTPUT"
       /\ slotUse[b.cb].last >= b.frame

\* The batches of two consecutive iterations are in flight, one per slot.
C25_Witness ==
    /\ NoCallFailed
    /\ {b.cb : b \in inflight} = Slots
    /\ \E b \in inflight : b.frame = 3

\* C26: when the host issues a present request, the image index it names is
\* the one the acquire of the same iteration returned, which is the image
\* the iteration's command buffer was recorded for, and every request waits
\* on the render-finished semaphore of the slot of its own iteration, the one
\* that iteration's submission signals.
C26_PresentNamesAcquiredImage ==
    /\ (setupFailed = "none" /\ pc = "present") =>
          /\ acquireOk
          /\ imageIndex = semImg[currentFrame]
          /\ cmdBuf[currentFrame].img = imageIndex
          /\ slotUse[currentFrame].last = frame
    /\ \A k \in 1 .. Len(presentQ) :
          presentQ[k].waitSem = (presentQ[k].frame - 1) % MAX_FRAMES_IN_FLIGHT

\* What a recorded command does, apart from the image it names.
Shape(c) == <<c.op, c.old, c.new, c.src, c.dst, c.verts, c.insts>>

\* The sequence a sealed command buffer holds.
SealedShape ==
    << <<"pipelineBarrier", "UNDEFINED", "COLOR_ATTACHMENT_OPTIMAL",
         "TOP_OF_PIPE", "COLOR_ATTACHMENT_OUTPUT", 0, 0>>,
       <<"beginRendering", "CLEAR_0_0_0_1", "STORE", "ATTACHMENT_OPTIMAL", "-", 0, 0>>,
       <<"bindPipeline", "-", "-", "-", "-", 0, 0>>,
       <<"setViewport", "-", "-", "-", "-", 0, 0>>,
       <<"setScissor", "-", "-", "-", "-", 0, 0>>,
       <<"draw", "-", "-", "-", "-", 3, 1>>,
       <<"endRendering", "-", "-", "-", "-", 0, 0>>,
       <<"pipelineBarrier", "COLOR_ATTACHMENT_OPTIMAL", "PRESENT_SRC_KHR",
         "COLOR_ATTACHMENT_OUTPUT", "BOTTOM_OF_PIPE", 0, 0>> >>

HoldsSealedShape(s) ==
    /\ Len(cmdBuf[s].cmds) = Len(SealedShape)
    /\ \A k \in 1 .. Len(SealedShape) : Shape(cmdBuf[s].cmds[k]) = SealedShape[k]

\* The command buffer that is passed to vkQueueSubmit, and every one that is
\* executing, is sealed and holds the sequence, recorded for the image of
\* its iteration after the reset of that iteration.
SubmittedAreSealed ==
    /\ (setupFailed = "none" /\ pc = "submit") =>
          /\ cmdBuf[currentFrame].state = "executable"
          /\ cmdBuf[currentFrame].img = imageIndex
          /\ HoldsSealedShape(currentFrame)
    /\ \A b \in inflight :
          /\ cmdBuf[b.cb].state = "pending"
          /\ cmdBuf[b.cb].img = b.img
          /\ HoldsSealedShape(b.cb)

\* The contents of a sealed command buffer change only by its reset.
SealedUntilReset ==
    \A s \in Slots :
       (cmdBuf[s].state \in {"executable", "pending"}
          /\ cmdBuf'[s].cmds # cmdBuf[s].cmds) => cmdBuf'[s] = FreshCmdBuf

\* C27: every command buffer that is submitted was reset, recorded and
\* sealed in the iteration that submits it and holds exactly: barrier
\* undefined to color-attachment, begin rendering (clear to opaque black,
\* store), bind pipeline, set viewport, set scissor, draw of 3 vertices and 1
\* instance, end rendering, barrier color-attachment to present; and nothing
\* is recorded into a sealed buffer before its next reset.
C27_SubmittedBufferContents == []SubmittedAreSealed /\ [][SealedUntilReset]_vars

\* The batch of the third iteration executes the buffer of slot 0, recorded
\* again after its reset.
C27_Witness ==
    /\ NoCallFailed
    /\ \E b \in inflight :
          /\ b.frame = 3
          /\ cmdBuf[b.cb].state = "pending"
          /\ HoldsSealedShape(b.cb)

\* C28: on every slot the submissions are issued in increasing order of
\* iteration and one cycle apart: the iteration of a slot's last submission
\* is one of the slot's own, it is later than the one before, by at least
\* MAX_FRAMES_IN_FLIGHT iterations, and a submission of iteration
\* k + MAX_FRAMES_IN_FLIGHT has the submission of iteration k as the one
\* before it on the slot.
C28_SubmitsInCycleOrder ==
    \A s \in Slots :
       LET u == slotUse[s] IN
          /\ u.last <= frame
          /\ u.last # 0 => (u.last - 1) % MAX_FRAMES_IN_FLIGHT = s
          /\ u.prev # 0 => (u.prev - 1) % MAX_FRAMES_IN_FLIGHT = s
          /\ u.last # 0 => u.prev < u.last
          /\ u.prev # 0 => u.last - u.prev >= MAX_FRAMES_IN_FLIGHT
          /\ u.last > MAX_FRAMES_IN_FLIGHT => u.prev = u.last - MAX_FRAMES_IN_FLIGHT

\* Slot 0 was submitted in iterations 1 and 3, slot 1 in iteration 2 between
\* them.
C28_Witness ==
    /\ NoCallFailed
    /\ slotUse[0].prev = 1
    /\ slotUse[0].last = 3
    /\ slotUse[1].last = 2

\* C29: whenever the loop runs after initVulkan created every object, there
\* are at least as many swapchain images as frame slots.
C29_SlotsWithinImages ==
    (setupFailed = "none" /\ pc \in LoopBodyPcs) =>
       Cardinality(Slots) <= imageCount

\* The loop runs on a swapchain with exactly as many images as slots, and
\* both slots have a frame in flight.
C29_Witness ==
    /\ NoCallFailed
    /\ pc \in LoopBodyPcs
    /\ imageCount = Cardinality(Slots)
    /\ Cardinality(inflight) = Cardinality(Slots)

\* C30: whichever surface format initVulkan selects, a live pipeline was
\* built for the format of the swapchain images, and every image view that
\* exists has that format too; the selected format is one the surface offers.
C30_PipelineFormatIsImageFormat ==
    H("pipeline", 0) \in valid =>
       /\ formatOf.pipeline # NoFormat
       /\ formatOf.pipeline = formatOf.swapchain
       /\ \A i \in Images :
             H("imageView", i) \in valid => formatOf.views[i] = formatOf.pipeline
       /\ \E k \in 1 .. Len(surfaceFormats) :
             /\ surfaceFormats[k] = surfaceFormat
             /\ surfaceFormats[k].format = formatOf.swapchain

\* initVulkan is complete on a surface whose first format is not the
\* preferred one: the second, preferred format was selected and the pipeline
\* and two image views were built for it.
C30_Witness ==
    /\ pc = "loopTest"
    /\ setupFailed = "none"
    /\ Len(surfaceFormats) = 2
    /\ surfaceFormats[1].format = "B8G8R8A8_UNORM"
    /\ surfaceFormat = surfaceFormats[2]
    /\ H("pipeline", 0) \in valid
    /\ formatOf.pipeline = "B8G8R8A8_SRGB"
    /\ formatOf.views[1] = "B8G8R8A8_SRGB"

\* What a step taken while the host is in mainLoop (loop test, body,
\* vkDeviceWaitIdle after the loop) leaves as it is: the extent, viewport
\* and scissor, every handle, the number of images and the formats.
\* currentFrame changes only in the advance at the end of the body, and a
\* step of the host changes the command buffer, fence and semaphores of no
\* slot but currentFrame.
LoopKeepsSetup ==
    pc \in ({"loopTest", "loopDrain"} \cup LoopBodyPcs) =>
       /\ UNCHANGED <<extent, drawArea, caps, imageCount, valid, created,
                      destroyed, formatOf, surfaceFormat, pipelineBlob>>
       /\ currentFrame' # currentFrame => pc = "advance"
       /\ pc' # pc =>
             \A s \in Slots \ {currentFrame} :
                /\ cmdBuf'[s] = cmdBuf[s]
                /\ fence'[s] = fence[s]
                /\ imgSem'[s] = imgSem[s]
                /\ renSem'[s] = renSem[s]

\* C31: the frame loop leaves the extent, the viewport, the scissor, the
\* pipeline, the swapchain, its images and views and the handles of command
\* buffers, semaphores and fences unchanged; an iteration changes the slot
\* index and the contents of the current slot's objects only.
C31_LoopKeepsSetup == [][LoopKeepsSetup]_vars

\* The second iteration has presented: the viewport and scissor are still
\* the extent resolved at setup and every object of setup is live.
C31_Witness ==
    /\ NoCallFailed
    /\ pc = "advance"
    /\ frame = 2
    /\ iterOps.present = 1
    /\ drawArea = DrawArea(extent)
    /\ extent # NoExtent
    /\ \A s \in Slots : {H("fence", s), H("imgSem", s), H("renSem", s)} \subseteq valid
    /\ {H("pipeline", 0), H("swapchain", 0), H("commandBuffers", 0)} \subseteq valid

\* C32: when run() has returned from a run in which no call failed, every
\* pipeline layout, pipeline, command pool, semaphore, fence, image view,
\* swapchain, device, surface and instance that initVulkan created has been
\* destroyed: for each kind as many objects were destroyed as were created.
C32_EveryObjectDestroyedOnce ==
    (pc = "done" /\ NoCallFailed) =>
       \A k \in {"pipelineLayout", "pipeline", "commandPool", "imgSem",
                 "renSem", "fence", "imageView", "swapchain", "device",
                 "surface", "instance"} :
          destroyed[k] = created[k]

\* C33: after initVulkan returned early, every handle that the step cleanup
\* is about to take (vkDeviceWaitIdle, then each vkDestroy* with its parent)
\* refers to an object that was created and still exists; null elements of
\* swapChainImageViews are skipped.
C33_CleanupOnlyOnCreated ==
    LET dev == H("device", 0)
        uses ==
          CASE pc = "cleanupDrain" -> {dev}
            [] pc = "destroyImgSem" -> {dev, H("imgSem", syncIdx)}
            [] pc = "destroyRenSem" -> {dev, H("renSem", syncIdx)}
            [] pc = "destroyFence" -> {dev, H("fence", syncIdx)}
            [] pc = "destroyCommandPool" -> {dev, H("commandPool", 0)}
            [] pc = "destroyPipeline" -> {dev, H("pipeline", 0)}
            [] pc = "destroyPipelineLayout" -> {dev, H("pipelineLayout", 0)}
            [] pc = "destroyImageViews" ->
                  {dev} \cup {h \in {H("imageView", i) : i \in 0 .. (imageCount - 1)} :
                                 ~IsNull(h)}
            [] pc = "destroySwapchain" -> {dev, H("swapchain", 0)}
            [] pc = "destroyDevice" -> {dev}
            [] pc = "destroySurface" -> {H("instance", 0), H("surface", 0)}
            [] pc = "destroyInstance" -> {H("instance", 0)}
            [] OTHER -> {}
    IN  setupFailed # "none" => uses \subseteq valid

\* C34: in a run whose setup completed, whenever the host records with
\* swapChainImages[imageIndex] and swapChainImageViews[imageIndex] or
\* presents imageIndex, the index is smaller than the number of images and
\* is the index that the vkAcquireNextImageKHR of the same iteration
\* returned, for the slot's semaphore.
C34_ImageIndexFromAcquire ==
    (setupFailed = "none" /\ pc \in {"record", "present"}) =>
       /\ acquireOk
       /\ imageIndex < imageCount
       /\ semImg[currentFrame] = imageIndex

\* C35: while the device renders into an image, the layout declared for the
\* colour attachment (colorAttachment.imageLayout) and the oldLayout of the
\* second barrier are both the layout the image is in, i.e. the one the
\* first barrier left it in; and when the presentation engine takes an
\* image from a present request, the image is in PRESENT_SRC_KHR.
C35_LayoutsTracked ==
    /\ \A b \in inflight :
          (b.stage = "transitioned" /\ b.img \in Images) =>
             /\ b.declared = layout[b.img]
             /\ b.lastOld = layout[b.img]
    /\ (presentQ # <<>> /\ renSem[Head(presentQ).waitSem] = "signaled") =>
          layout[Head(presentQ).img] = "PRESENT_SRC_KHR"

C37_ExistingLeftUnmodified ==
    /\ \A p \in {"src\\Main.cpp", "CMakeLists.txt", "vendor\\glfw", "vendor\\glm"} :
          script.atStart[p].exists => script.fs[p] = script.atStart[p]
    /\ script.run >= 2 =>
          \A p \in {"src\\Main.cpp", "CMakeLists.txt"} :
             script.first[p].exists => script.fs[p] = script.first[p]

\* The script was run in an empty folder and then once more: the second run
\* ran only cd and the two cmake commands and ended with the success
\* message, and the files and clones are those of the first run.
C37_Witness ==
    /\ script.run = 2
    /\ script.status = "exited"
    /\ script.message
    /\ \A p \in Paths : ~script.given[p].exists
    /\ script.ran = <<8, 9, 10>>
    /\ script.fs["src\\Main.cpp"] = Holding(MainLines)
    /\ script.fs["CMakeLists.txt"] = Holding(CMakeLines)
    /\ script.fs["vendor\\glfw"] = Holding(1)
    /\ script.fs["vendor\\glm"] = Holding(1)
    /\ script.first = script.fs

\* C38: the commands a run executes are in the order create directories,
\* clone, generate, create and enter build, configure, build; a failed
\* mkdir, clone, configure or build ends the run with exit code 1 as the
\* last command executed; and the success message is printed only in a run
\* in which no command failed.
C38_StepsInOrderOrExit ==
    /\ \A i, j \in DOMAIN script.ran : i < j => script.ran[i] < script.ran[j]
    /\ \A i \in script.failed :
          Steps[i].do \in {"mkdir", "clone", "configure", "build"} =>
             /\ script.status = "exited"
             /\ script.exitCode = 1
             /\ script.ran[Len(script.ran)] = i
             /\ ~script.message
    /\ script.message => script.failed = {}
====
